---- MODULE Spec2Model ----
(***************************************************************************)
(* Secure Key Exchange Protocol (SKEP) of the E2EE messaging system.       *)
(*                                                                         *)
(* Spec      : the orchestrator SecureKeyExchangeProtocol, one instance    *)
(*             per user, driven by the messages its handlers return.       *)
(* SpecIV    : one SessionKeys object shared by KeyDerivation.getNextIV    *)
(*             and createEncryptedMessage.                                 *)
(* SpecCodec : createEncryptedMessage / decryptReceivedMessage.            *)
(*                                                                         *)
(* Cryptographic primitives are symbolic: a signature names its signer and *)
(* the signed bytes, ECDH of two ephemeral keys is the unordered pair of   *)
(* the two keys, HKDF output is the triple of its inputs, HMAC output is a *)
(* 32-byte array that is injective in (key, challenge) on the model's      *)
(* domain.                                                                 *)
(***************************************************************************)
EXTENDS Integers, Sequences, FiniteSets, TLC

\* ------------------------------------------------------------------ bounds
MaxSid == 2
MaxEph == 2
MaxCid == 2
MaxNow == 300002
NumSalts == 2
NumChallenges == 1
MaxCount == 1
MaxIVs == 5
MaxCalls == 2
MaxTextLen == 2
NumNonces == 2
NumIVs == 1
NumKeys == 2
MaxSeq == 2
MaxMessages == 2
MaxKxEph == 3
MaxSent == 2
MaxSending == 2
MaxDecrypting == 1
MaxPeerSeq == 2
NumMessageIds == 2
MaxTimers == 3
MaxManagerNow == 172800001
MaxResponseLen == 3
MaxUses == 1001
MaxWallClock == 14400001
MaxStored == 2
MaxStoredSeq == 1
MaxLogins == 2
MaxVerifying == 2
MaxAuthNow == 600002
MaxExchanges == 2
MaxContents == 3
MaxFlushing == 2
HashVaried == 4

\* ------------------------------------------------------- program constants
HandshakeMaxAge == 300000
ConfirmationMaxAge == 60000
CleanupTimeout == 300000
ChallengeLen == 32
HmacLen == 32
MessageMaxAge == 300000
SessionLifetime == 86400000
Limb == 65536
NonceLen == 16
IVLen == 12
TagLen == 16

Users == {"alice", "bob"}
Mallory == "mallory"
Delays == {300001}

NoSid == 0
NoKey == 0
NoEph == 0
NoTime == 0 - 1
StartTime == 1

UserNum(u) == CASE u = "alice" -> 1 [] u = "bob" -> 2 [] OTHER -> 3

Pad(s, n) == [i \in 1..n |-> IF i <= Len(s) THEN s[i] ELSE 0]

\* new Uint8Array(array): every element is reduced modulo 256
ToUint8Array(a) == [i \in 1..Len(a) |-> a[i] % 256]

\* identityKeys, peers, sessions, pendingChallenges: the fields of each user's
\* SecureKeyExchangeProtocol instance; now: Date.now(); nextSid, nextEph, nextCid: the next
\* fresh session id, ephemeral key pair and challenge id; last: the last call
VARIABLES identityKeys, peers, sessions, pendingChallenges, now,
          nextSid, nextEph, nextCid, last

\* sessionMetadata: one SessionKeys object handed to KeyDerivation.getNextIV and,
\* as sessionMetadata, to createEncryptedMessage; inFlight: the createEncryptedMessage
\* calls suspended at their await of generateDeterministicIV; ivInputs: the
\* counters IVs were derived from, in order
VARIABLES sessionMetadata, inFlight, ivInputs

\* channel: the encrypted message last returned by createEncryptedMessage, with
\* whether decryptReceivedMessage has accepted it; sent: the plaintext and key
\* of that call; created: the number of such calls so far; usedNonces: the receiver's replay set; accepted: the nonces of
\* the messages accepted so far; received: the last result of
\* decryptReceivedMessage
VARIABLES channel, sent, created, usedNonces, accepted, received

\* kxMessages: the key exchange messages initiateKeyExchange and
\* respondToKeyExchange have returned; ephemeralPrivateKeys: the private keys
\* initiateKeyExchange returned to each user; kxSessionKeys: the session keys
\* respondToKeyExchange and completeKeyExchange returned to each user
VARIABLES kxMessages, ephemeralPrivateKeys, kxSessionKeys, kxNextEph, kxLast

\* The useMessaging hook of one user and one peer. sessionKey: the key of the
\* session with the peer, NoKey while there is none; sequenceNumbers, peerNonces:
\* the peer's entries of the sequenceNumbers and usedNonces maps;
\* sending: the nextSeq of every sendEncryptedMessage call that is awaiting;
\* decrypting: the payload and targetSeq of every decryptReceivedMessage call
\* that is awaiting decryptMessage; sentSequence: the sequence numbers of the
\* messages the server accepted, in order; hookLast: how the last call ended
VARIABLES hookSessionKey, sequenceNumbers, peerNonces, receivedMessageIds,
          sending, decrypting, sentSequence, hookLast

\* SessionManager: its sessions and sessionTimeouts maps; timers: the timeouts
\* that setTimeout has armed and that have neither fired nor been cleared,
\* by timeout id; managerLast: the last call on the manager
VARIABLES smSessions, sessionTimeouts, timers, nextTimeoutId, managerLast

\* verifications: the last call of verifyKeyConfirmationResponse on its own, with
\* its arguments, what it returned and how many byte comparisons its loop made
VARIABLES verifications

\* hashed: the last two counters handed to the deterministic IV derivation under
\* one ivSeed, with the bytes that were hashed for each
VARIABLES hashed

\* derivedKeys: the SessionKeys object of one long-lived session (none before
\* the derivation); wallClock: Date.now() of the page that uses it
VARIABLES derivedKeys, wallClock

\* the backend's collections. contactDocs: the Contact documents as pairs
\* <<userId, contactUserId>>; messageDocs: the Message documents in the order
\* they were saved; storeLast: the last request and the status it was answered with
VARIABLES contactDocs, messageDocs, storeLast

\* the auth routes. userDocs: the User documents by username; authClock: the
\* server's Date.now(); verifying: the verify-otp requests between their
\* User.findOne and their user.save(); sentOtps: the OTP e-mails sent to each user;
\* tokens: the tokens verify-otp has answered with, per user; authLast: the last
\* response
VARIABLES userDocs, authClock, verifying, sentOtps, tokens, authLast

\* the useMessaging hooks of two users and the server between them.
\* exchanges: the key exchanges the server holds, by exchangeId, each with its
\* two messages and how the handler of each ended ("no": not yet delivered);
\* pendingExchanges, pendingSessions: the refs of each user's hook;
\* peerSessions: each user's sessionManager, the session key by peer;
\* queues: the arrays ever stored in pendingMessages; pendingMessages: each
\* user's map from a peer to one of these arrays; flushing: the
\* flushQueuedMessages calls between two awaits; outbox: the requests that
\* reached the server, in order; nextExchangeEph, nextContent: fresh key pairs
\* and message texts
VARIABLES exchanges, pendingExchanges, pendingSessions, peerSessions, queues,
          pendingMessages, flushing, outbox, nextExchangeEph, nextContent

\* heldResponses: the key confirmation responses the orchestrators returned and
\* the transport still holds, each deliverable at any later moment
VARIABLES heldResponses

\* numericCode: the last hash handed to formatNumericCode, with the code returned
VARIABLES numericCode

skepVars == <<identityKeys, peers, sessions, pendingChallenges, now,
              nextSid, nextEph, nextCid, last>>
ivVars == <<sessionMetadata, inFlight, ivInputs>>
codecVars == <<channel, sent, created, usedNonces, accepted, received>>
kxVars == <<kxMessages, ephemeralPrivateKeys, kxSessionKeys, kxNextEph, kxLast>>
hookVars == <<hookSessionKey, sequenceNumbers, peerNonces, receivedMessageIds,
              sending, decrypting, sentSequence, hookLast>>
managerVars == <<smSessions, sessionTimeouts, timers, nextTimeoutId, managerLast>>
rekeyVars == <<derivedKeys, wallClock>>
storeVars == <<contactDocs, messageDocs, storeLast>>
authVars == <<userDocs, authClock, verifying, sentOtps, tokens, authLast>>
duoVars == <<exchanges, pendingExchanges, pendingSessions, peerSessions, queues,
             pendingMessages, flushing, outbox, nextExchangeEph, nextContent>>
lateVars == <<rekeyVars, storeVars, authVars, duoVars, heldResponses, numericCode>>
earlyVars == <<skepVars, ivVars, codecVars, kxVars, hookVars, managerVars, verifications, hashed>>
appVars == <<kxVars, hookVars, managerVars, verifications, hashed, lateVars>>
vars == <<skepVars, ivVars, codecVars, appVars>>

\* --------------------------------------------------- symbolic primitives
SetMin(S) == CHOOSE x \in S : \A y \in S : x <= y
SetMax(S) == CHOOSE x \in S : \A y \in S : x >= y

\* crypto.subtle.sign / verify with ECDSA: the public key of owner o is o
Sign(owner, data) == [signer |-> owner, data |-> data]
Verify(publicKey, signature, data) ==
  signature.signer = publicKey /\ signature.data = data

\* crypto.subtle.deriveBits with ECDH: private key e against public key f
DeriveBits(localPrivate, peerPublic) == {localPrivate, peerPublic}

\* HKDF-SHA256 of a base key under a salt and an info label
HKDF(secret, salt, info) == [secret |-> secret, salt |-> salt, info |-> info]

PurposeNum(p) ==
  CASE p = "encryption" -> 1 [] p = "confirmation" -> 2
    [] p = "iv-seed" -> 3 [] OTHER -> 4

KeyBytes(k) ==
  << SetMin(k.secret), SetMax(k.secret), k.salt, k.info[1][1],
     UserNum(k.info[1][2]), UserNum(k.info[1][3]), PurposeNum(k.info[2]) >>

\* crypto.subtle.sign("HMAC", key, data): 32 bytes
HmacSign(key, data) ==
  Pad(KeyBytes(key) \o <<Len(data)>> \o SubSeq(data, 1, IF Len(data) < 8 THEN Len(data) ELSE 8),
      HmacLen)

\* ------------------------------------------------------- KeyDerivation
\* `session-${sessionId}-${userId}-${peerId}`: the ids of this model hold no "-",
\* so the string determines the three parts
ContextInfo(sessionId, userId, peerId) == <<sessionId, userId, peerId>>

deriveSessionKeys(sharedSecret, salt, contextInfo) ==
  [ encryptionKey |-> HKDF(sharedSecret, salt, <<contextInfo, "encryption">>),
    hmacKey       |-> HKDF(sharedSecret, salt, <<contextInfo, "confirmation">>),
    authKey       |-> HKDF(sharedSecret, salt, <<contextInfo, "authentication">>),
    ivSeed        |-> HKDF(sharedSecret, salt, <<contextInfo, "iv-seed">>),
    salt          |-> salt,
    messageCount  |-> 0 ]

Salts == 1..NumSalts
Challenges == { Pad(<<c>>, ChallengeLen) : c \in 1..NumChallenges }

\* ------------------------------------------------------- KeyConfirmation
\* what initiateKeyConfirmation returns for the random challenge and the fresh
\* challenge id it draws
initiateKeyConfirmation(sessionKeys, challenge, challengeId) ==
  [ challenge |-> challenge,
    expectedResponse |-> HmacSign(sessionKeys.hmacKey, challenge),
    challengeId |-> challengeId ]

respondToKeyConfirmation(challenge, sessionKeys) ==
  HmacSign(sessionKeys.hmacKey, ToUint8Array(challenge))

\* a comparison of the lengths alone
verifyLengthOnly(response, expectedResponse) ==
  Len(ToUint8Array(response)) = Len(ToUint8Array(expectedResponse))

verifyKeyConfirmationResponse(response, expectedResponse) ==
  LET responseBytes == ToUint8Array(response)
      expectedResponseBytes == ToUint8Array(expectedResponse)
  IN  /\ Len(responseBytes) = Len(expectedResponseBytes)
      /\ \A i \in 1..Len(responseBytes) : responseBytes[i] = expectedResponseBytes[i]

validateKeyConfirmationMessage(message) ==
  /\ message.type \in {"KEY_CONFIRMATION_CHALLENGE", "KEY_CONFIRMATION_RESPONSE"}
  /\ message.timestamp # 0
  /\ message.challengeId # 0
  /\ message.type = "KEY_CONFIRMATION_CHALLENGE" => Len(message.challenge) = ChallengeLen
  /\ message.type = "KEY_CONFIRMATION_RESPONSE" => Len(message.response) = HmacLen
  /\ ~(now - message.timestamp > ConfirmationMaxAge)

createKeyConfirmationMessage(challenge, challengeId) ==
  [ type |-> "KEY_CONFIRMATION_CHALLENGE", challenge |-> challenge,
    challengeId |-> challengeId, timestamp |-> now ]

createKeyConfirmationResponse(response, challengeId) ==
  [ type |-> "KEY_CONFIRMATION_RESPONSE", response |-> response,
    challengeId |-> challengeId, timestamp |-> now ]

\* ------------------------------------------------------- KeyExchangeProtocol
\* createHelloMessage adds no sessionId field
createHelloMessage(userId, peerId) ==
  [ type |-> "KEY_EXCHANGE_HELLO", userId |-> userId, peerId |-> peerId,
    ecdhPublicKey |-> userId, ecdsaPublicKey |-> userId,
    sessionId |-> NoSid, timestamp |-> now ]

validateHelloMessage(message) ==
  /\ message.type = "KEY_EXCHANGE_HELLO"
  /\ message.timestamp # 0
  /\ ~(now - message.timestamp > HandshakeMaxAge)

validateEphemeralMessage(message) ==
  /\ message.type = "EPHEMERAL_KEY_EXCHANGE"
  /\ message.sessionId # NoSid
  /\ message.timestamp # 0
  /\ ~(now - message.timestamp > HandshakeMaxAge)

\* the session and the message createEphemeralKeyExchange returns
createEphemeralKeyExchange(sessionId, peerId, signer, eph) ==
  [ session |-> [ peerId |-> peerId, localEphemeral |-> eph, sharedSecret |-> {},
                  keys |-> <<>>, status |-> "ephemeral_created",
                  createdAt |-> now, lastActivity |-> NoTime ],
    message |-> [ type |-> "EPHEMERAL_KEY_EXCHANGE", sessionId |-> sessionId,
                  ephemeralPublicKey |-> eph, signature |-> Sign(signer, eph),
                  timestamp |-> now ] ]

\* a derivation that stores the shared secret before it checks the signature
deriveBeforeVerify(session, peerEphemeralData, peerEcdsaPublicKey) ==
  IF session.localEphemeral = NoEph
  THEN [ok |-> FALSE, error |-> "TypeError", session |-> session]
  ELSE [ok |-> Verify(peerEcdsaPublicKey, peerEphemeralData.signature,
                      peerEphemeralData.ephemeralPublicKey),
        error |-> IF Verify(peerEcdsaPublicKey, peerEphemeralData.signature,
                            peerEphemeralData.ephemeralPublicKey)
                  THEN "" ELSE "Invalid signature",
        session |-> [session EXCEPT
           !.sharedSecret = DeriveBits(session.localEphemeral,
                                       peerEphemeralData.ephemeralPublicKey),
           !.status = "shared_secret_derived"]]

\* the outcome of verifyAndDeriveSharedSecret: whether it returned, the error
\* it threw otherwise, and the session object as the call leaves it
verifyAndDeriveSharedSecret(session, peerEphemeralData, peerEcdsaPublicKey) ==
  IF ~Verify(peerEcdsaPublicKey, peerEphemeralData.signature,
             peerEphemeralData.ephemeralPublicKey)
  THEN [ok |-> FALSE, error |-> "Invalid signature", session |-> session]
  ELSE IF session.localEphemeral = NoEph
  THEN [ok |-> FALSE, error |-> "TypeError", session |-> session]
  ELSE [ok |-> TRUE, error |-> "",
        session |-> [session EXCEPT
           !.sharedSecret = DeriveBits(session.localEphemeral,
                                       peerEphemeralData.ephemeralPublicKey),
           !.status = "shared_secret_derived"]]

\* ------------------------------------------------- SecureKeyExchangeProtocol
HasKeys(session) == session.keys # <<>>
\* a deletion that leaves every entry where it is
keepEntries(map, keys) == map
Put(map, key, value) == [k \in DOMAIN map \cup {key} |-> IF k = key THEN value ELSE map[k]]
Remove(map, keys) == [k \in DOMAIN map \ keys |-> map[k]]
Empty == [k \in {} |-> 0]

\* what the last call was and how it ended: returned (ok) or threw (error)
Result(op, ok, error) == [op |-> op, ok |-> ok, error |-> error]
Response(op, status) == [op |-> op, status |-> status]

Init ==
  /\ identityKeys = [u \in Users |-> FALSE]
  /\ peers = [u \in Users |-> Empty]
  /\ sessions = [u \in Users |-> Empty]
  /\ pendingChallenges = [u \in Users |-> Empty]
  /\ now = StartTime
  /\ nextSid = 1 /\ nextEph = 1 /\ nextCid = 1
  /\ last = Result("none", TRUE, "")
  /\ sessionMetadata = [ivSeed |-> 1, messageCount |-> 0]
  /\ inFlight = 0
  /\ ivInputs = <<>>
  /\ channel = <<>>
  /\ sent = <<>>
  /\ created = 0
  /\ usedNonces = {}
  /\ accepted = {}
  /\ received = [isValid |-> FALSE, message |-> <<>>, error |-> "none"]
  /\ kxMessages = {}
  /\ ephemeralPrivateKeys = [u \in Users |-> {}]
  /\ kxSessionKeys = [u \in Users |-> {}]
  /\ kxNextEph = 1
  /\ kxLast = Result("none", TRUE, "")
  /\ hookSessionKey = NoKey
  /\ sequenceNumbers = 0
  /\ peerNonces = {}
  /\ receivedMessageIds = {}
  /\ sending = <<>>
  /\ decrypting = <<>>
  /\ sentSequence = <<>>
  /\ hookLast = Result("none", TRUE, "")
  /\ smSessions = Empty
  /\ sessionTimeouts = Empty
  /\ timers = Empty
  /\ nextTimeoutId = 1
  /\ managerLast = Result("none", TRUE, "")
  /\ verifications = <<>>
  /\ hashed = <<>>
  /\ derivedKeys = <<>>
  /\ wallClock = StartTime
  /\ contactDocs = {}
  /\ messageDocs = <<>>
  /\ storeLast = Response("none", 0)
  /\ userDocs = Empty
  /\ authClock = StartTime
  /\ verifying = <<>>
  /\ sentOtps = [u \in Users |-> 0]
  /\ tokens = [u \in Users |-> 0]
  /\ authLast = Response("none", 0)
  /\ exchanges = <<>>
  /\ pendingExchanges = [u \in Users |-> Empty]
  /\ pendingSessions = [u \in Users |-> {}]
  /\ peerSessions = [u \in Users |-> Empty]
  /\ queues = <<>>
  /\ pendingMessages = [u \in Users |-> Empty]
  /\ flushing = <<>>
  /\ outbox = <<>>
  /\ nextExchangeEph = 1
  /\ nextContent = 1
  /\ heldResponses = {}
  /\ numericCode = <<>>

Ids == <<nextSid, nextEph, nextCid>>

initialize(u) ==
  /\ ~identityKeys[u]
  /\ identityKeys' = [identityKeys EXCEPT ![u] = TRUE]
  /\ last' = Result("initialize", TRUE, "")
  /\ UNCHANGED <<peers, sessions, pendingChallenges, now, Ids>>

startKeyExchange(u, peerId) ==
  IF ~identityKeys[u]
  THEN /\ last' = Result("startKeyExchange", FALSE, "Protocol not initialized")
       /\ UNCHANGED <<identityKeys, peers, sessions, pendingChallenges, now, Ids>>
  ELSE /\ nextSid <= MaxSid
       /\ LET sessionId == nextSid
          IN  /\ sessions' = [sessions EXCEPT ![u] = Put(@, sessionId,
                    [ peerId |-> peerId, localEphemeral |-> NoEph, sharedSecret |-> {},
                      keys |-> <<>>, status |-> "initiated", createdAt |-> now,
                      lastActivity |-> now ])]
              /\ nextSid' = nextSid + 1
              /\ last' = Result("startKeyExchange", TRUE, "")
       /\ UNCHANGED <<identityKeys, peers, pendingChallenges, now, nextEph, nextCid>>

processHelloMessage(u, message) ==
  IF ~validateHelloMessage(message)
  THEN /\ last' = Result("processHelloMessage", FALSE, "Invalid hello message")
       /\ UNCHANGED <<identityKeys, peers, sessions, pendingChallenges, now, Ids>>
  ELSE LET newPeers == [peers EXCEPT ![u] = Put(@, message.userId,
                          [ ecdhPublicKey |-> message.ecdhPublicKey,
                            ecdsaPublicKey |-> message.ecdsaPublicKey,
                            verified |-> FALSE ])]
       IN
       IF ~identityKeys[u]
       THEN \* createEphemeralKeyExchange throws on identityKeys.ecdsaKeyPair
            /\ peers' = newPeers
            /\ last' = Result("processHelloMessage", FALSE, "TypeError")
            /\ UNCHANGED <<identityKeys, sessions, pendingChallenges, now, Ids>>
       ELSE /\ nextEph <= MaxEph
            /\ message.sessionId = NoSid => nextSid <= MaxSid
            /\ LET sessionId == IF message.sessionId # NoSid THEN message.sessionId ELSE nextSid
                   result == createEphemeralKeyExchange(sessionId, message.userId, u, nextEph)
               IN  /\ peers' = newPeers
                   /\ sessions' = [sessions EXCEPT ![u] = Put(@, sessionId, result.session)]
                   /\ nextSid' = IF message.sessionId # NoSid THEN nextSid ELSE nextSid + 1
                   /\ nextEph' = nextEph + 1
                   /\ last' = Result("processHelloMessage", TRUE, "")
            /\ UNCHANGED <<identityKeys, pendingChallenges, now, nextCid>>

processEphemeralMessage(u, message, sessionId) ==
  LET Fail(error) ==
        /\ last' = Result("processEphemeralMessage", FALSE, error)
        /\ UNCHANGED <<identityKeys, peers, pendingChallenges, now, Ids>>
  IN
  IF ~validateEphemeralMessage(message)
  THEN Fail("Invalid ephemeral message") /\ UNCHANGED sessions
  ELSE IF sessionId \notin DOMAIN sessions[u]
  THEN Fail("Session not found") /\ UNCHANGED sessions
  ELSE IF sessions[u][sessionId].peerId \notin DOMAIN peers[u]
  THEN Fail("Peer not found") /\ UNCHANGED sessions
  ELSE
    LET session == sessions[u][sessionId]
        peer == peers[u][session.peerId]
        derived == verifyAndDeriveSharedSecret(session, message, peer.ecdsaPublicKey)
    IN
    IF ~derived.ok
    THEN /\ Fail(derived.error)
         /\ sessions' = [sessions EXCEPT ![u][sessionId] = derived.session]
    ELSE /\ nextCid <= MaxCid
         /\ \E salt \in Salts, challenge \in Challenges :
              LET sessionKeys == deriveSessionKeys(derived.session.sharedSecret, salt,
                                    ContextInfo(sessionId, u, session.peerId))
                  confirmation == initiateKeyConfirmation(sessionKeys, challenge, nextCid)
              IN  /\ sessions' = [sessions EXCEPT ![u][sessionId] =
                        [derived.session EXCEPT !.keys = <<sessionKeys>>,
                                                !.status = "keys_derived"]]
                  /\ pendingChallenges' = [pendingChallenges EXCEPT ![u] =
                        Put(@, confirmation.challengeId,
                          [ expectedResponse |-> confirmation.expectedResponse,
                            peerId |-> session.peerId,
                            timestamp |-> now, sessionId |-> sessionId ])]
                  /\ nextCid' = nextCid + 1
                  /\ last' = Result("processEphemeralMessage", TRUE, "")
         /\ UNCHANGED <<identityKeys, peers, now, nextSid, nextEph>>

processKeyConfirmationChallenge(u, message, sessionId) ==
  /\ last' =
       IF ~validateKeyConfirmationMessage(message)
       THEN Result("processKeyConfirmationChallenge", FALSE, "Invalid key confirmation message")
       ELSE IF sessionId \notin DOMAIN sessions[u] \/ ~HasKeys(sessions[u][sessionId])
       THEN Result("processKeyConfirmationChallenge", FALSE, "Session or session keys not found")
       ELSE Result("processKeyConfirmationChallenge", TRUE, "")
  /\ UNCHANGED <<identityKeys, peers, sessions, pendingChallenges, now, Ids>>

processKeyConfirmationResponse(u, message) ==
  LET Fail(error) ==
        /\ last' = Result("processKeyConfirmationResponse", FALSE, error)
        /\ UNCHANGED <<sessions, pendingChallenges>>
  IN
  /\ IF ~validateKeyConfirmationMessage(message)
     THEN Fail("Invalid key confirmation response")
     ELSE IF message.challengeId \notin DOMAIN pendingChallenges[u]
     THEN Fail("Challenge not found or expired")
     ELSE LET challengeData == pendingChallenges[u][message.challengeId]
              isConfirmed == verifyKeyConfirmationResponse(message.response,
                                                           challengeData.expectedResponse)
          IN  IF isConfirmed
              THEN /\ sessions' =
                        IF challengeData.sessionId \in DOMAIN sessions[u]
                        THEN [sessions EXCEPT ![u][challengeData.sessionId].status = "confirmed"]
                        ELSE sessions
                   /\ pendingChallenges' = [pendingChallenges EXCEPT ![u] =
                                               Remove(@, {message.challengeId})]
                   /\ last' = Result("processKeyConfirmationResponse", TRUE, "")
              ELSE Fail("Key confirmation failed")
  /\ UNCHANGED <<identityKeys, peers, now, Ids>>

getSessionKeys(u, sessionId) ==
  /\ last' =
       IF sessionId \notin DOMAIN sessions[u] \/ ~HasKeys(sessions[u][sessionId])
       THEN Result("getSessionKeys", FALSE, "not found")
       ELSE IF sessions[u][sessionId].status # "confirmed"
       THEN Result("getSessionKeys", FALSE, "not confirmed yet")
       ELSE Result("getSessionKeys", TRUE, "")
  /\ UNCHANGED <<identityKeys, peers, sessions, pendingChallenges, now, Ids>>

\* KeyDerivation.getNextIV: the session keys after sessionKeys.messageCount++
getNextIVKeys(sessionKeys) == [sessionKeys EXCEPT !.messageCount = @ + 1]

getNextIV(u, sessionId) ==
  /\ IF sessionId \notin DOMAIN sessions[u] \/ ~HasKeys(sessions[u][sessionId])
     THEN /\ last' = Result("getNextIV", FALSE, "not found or has no keys")
          /\ UNCHANGED sessions
     ELSE /\ sessions[u][sessionId].keys[1].messageCount < MaxCount
          /\ sessions' = [sessions EXCEPT ![u][sessionId].keys =
                             <<getNextIVKeys(sessions[u][sessionId].keys[1])>>]
          /\ last' = Result("getNextIV", TRUE, "")
  /\ UNCHANGED <<identityKeys, peers, pendingChallenges, now, Ids>>

\* a sweep that measures every session's age from its creation
sweepByCreation(u) ==
  LET timeout == CleanupTimeout
      oldChallenges == { id \in DOMAIN pendingChallenges[u] :
                           now - pendingChallenges[u][id].timestamp > timeout }
      oldSessions == { id \in DOMAIN sessions[u] :
                         /\ sessions[u][id].status # "confirmed"
                         /\ now - sessions[u][id].createdAt > timeout }
  IN  /\ pendingChallenges' = [pendingChallenges EXCEPT ![u] = Remove(@, oldChallenges)]
      /\ sessions' = [sessions EXCEPT ![u] = Remove(@, oldSessions)]
      /\ last' = Result("cleanup", TRUE, "")
      /\ UNCHANGED <<identityKeys, peers, now, Ids>>

cleanup(u) ==
  LET timeout == CleanupTimeout
      oldChallenges == { id \in DOMAIN pendingChallenges[u] :
                           now - pendingChallenges[u][id].timestamp > timeout }
      \* a session without lastActivity compares NaN > timeout, which is false
      oldSessions == { id \in DOMAIN sessions[u] :
                         /\ sessions[u][id].status # "confirmed"
                         /\ sessions[u][id].lastActivity # NoTime
                         /\ now - sessions[u][id].lastActivity > timeout }
  IN  /\ pendingChallenges' = [pendingChallenges EXCEPT ![u] = Remove(@, oldChallenges)]
      /\ sessions' = [sessions EXCEPT ![u] = Remove(@, oldSessions)]
      /\ last' = Result("cleanup", TRUE, "")
      /\ UNCHANGED <<identityKeys, peers, now, Ids>>

\* the passage of wall-clock time between two handler calls
AdvanceTime(d) ==
  /\ now + d <= MaxNow
  /\ now' = now + d
  /\ UNCHANGED <<identityKeys, peers, sessions, pendingChallenges, last, Ids>>

\* ---------------------------------------------- deterministic IV derivation
\* SHA-256 over the seed and the counter as a Uint32; the counters of this model
\* stay below 2^32, where that conversion leaves them as they are
generateDeterministicIV(ivSeed, counter) == [ivSeed |-> ivSeed, counter |-> counter]

\* KeyDerivation.getNextIV(sessionKeys): increments, then derives from the new count
KeyDerivation_getNextIV ==
  /\ Len(ivInputs) < MaxIVs
  /\ sessionMetadata' = getNextIVKeys(sessionMetadata)
  /\ ivInputs' = Append(ivInputs,
        generateDeterministicIV(sessionMetadata.ivSeed, getNextIVKeys(sessionMetadata).messageCount))
  /\ UNCHANGED inFlight

\* createEncryptedMessage with sessionMetadata, up to its await: the IV is
\* derived from the count as it is now
createEncryptedMessage_deriveIV ==
  /\ Len(ivInputs) < MaxIVs
  /\ inFlight < MaxCalls
  /\ ivInputs' = Append(ivInputs,
        generateDeterministicIV(sessionMetadata.ivSeed, sessionMetadata.messageCount))
  /\ inFlight' = inFlight + 1
  /\ UNCHANGED sessionMetadata

\* createEncryptedMessage after the await: sessionMetadata.messageCount++
createEncryptedMessage_increment ==
  /\ inFlight > 0
  /\ inFlight' = inFlight - 1
  /\ sessionMetadata' = [sessionMetadata EXCEPT !.messageCount = @ + 1]
  /\ UNCHANGED ivInputs

\* ------------------------------------------------------ text and byte codecs
\* JavaScript strings are sequences of UTF-16 code units: "a", U+FEFF, and the
\* two halves of the surrogate pair of U+1F600
CodeUnits == {97, 65279, 55357, 56832}
Plaintexts == UNION { [1..n -> CodeUnits] : n \in 0..MaxTextLen }

IsHighSurrogate(c) == c >= 55296 /\ c <= 56319
IsLowSurrogate(c) == c >= 56320 /\ c <= 57343

RECURSIVE ToCodePoints(_)
\* the scalar values of a string: a surrogate pair is one code point, a lone
\* surrogate is replaced by U+FFFD
ToCodePoints(str) ==
  IF str = <<>> THEN <<>>
  ELSE IF IsHighSurrogate(str[1]) /\ Len(str) >= 2 /\ IsLowSurrogate(str[2])
  THEN <<65536 + (str[1] - 55296) * 1024 + (str[2] - 56320)>>
         \o ToCodePoints(SubSeq(str, 3, Len(str)))
  ELSE IF IsHighSurrogate(str[1]) \/ IsLowSurrogate(str[1])
  THEN <<65533>> \o ToCodePoints(Tail(str))
  ELSE <<str[1]>> \o ToCodePoints(Tail(str))

Utf8(cp) ==
  IF cp < 128 THEN <<cp>>
  ELSE IF cp < 2048 THEN <<192 + (cp \div 64), 128 + (cp % 64)>>
  ELSE IF cp < 65536
  THEN <<224 + (cp \div 4096), 128 + ((cp \div 64) % 64), 128 + (cp % 64)>>
  ELSE <<240 + (cp \div 262144), 128 + ((cp \div 4096) % 64),
         128 + ((cp \div 64) % 64), 128 + (cp % 64)>>

RECURSIVE Utf8All(_)
Utf8All(cps) == IF cps = <<>> THEN <<>> ELSE Utf8(cps[1]) \o Utf8All(Tail(cps))

\* new TextEncoder().encode(message)
TextEncode(str) == Utf8All(ToCodePoints(str))

IsContinuation(bytes, i) == i <= Len(bytes) /\ bytes[i] >= 128 /\ bytes[i] < 192

RECURSIVE Utf8Decode(_)
\* the code points of a UTF-8 byte sequence; a malformed byte yields U+FFFD
Utf8Decode(bytes) ==
  IF bytes = <<>> THEN <<>>
  ELSE IF bytes[1] < 128
  THEN <<bytes[1]>> \o Utf8Decode(Tail(bytes))
  ELSE IF bytes[1] >= 192 /\ bytes[1] < 224 /\ IsContinuation(bytes, 2)
  THEN <<(bytes[1] - 192) * 64 + (bytes[2] - 128)>>
         \o Utf8Decode(SubSeq(bytes, 3, Len(bytes)))
  ELSE IF bytes[1] >= 224 /\ bytes[1] < 240 /\ IsContinuation(bytes, 2)
          /\ IsContinuation(bytes, 3)
  THEN <<(bytes[1] - 224) * 4096 + (bytes[2] - 128) * 64 + (bytes[3] - 128)>>
         \o Utf8Decode(SubSeq(bytes, 4, Len(bytes)))
  ELSE IF bytes[1] >= 240 /\ bytes[1] < 248 /\ IsContinuation(bytes, 2)
          /\ IsContinuation(bytes, 3) /\ IsContinuation(bytes, 4)
  THEN <<(bytes[1] - 240) * 262144 + (bytes[2] - 128) * 4096
           + (bytes[3] - 128) * 64 + (bytes[4] - 128)>>
         \o Utf8Decode(SubSeq(bytes, 5, Len(bytes)))
  ELSE <<65533>> \o Utf8Decode(Tail(bytes))

RECURSIVE ToCodeUnits(_)
ToCodeUnits(cps) ==
  IF cps = <<>> THEN <<>>
  ELSE IF cps[1] >= 65536
  THEN <<55296 + ((cps[1] - 65536) \div 1024), 56320 + ((cps[1] - 65536) % 1024)>>
         \o ToCodeUnits(Tail(cps))
  ELSE <<cps[1]>> \o ToCodeUnits(Tail(cps))

\* new TextDecoder().decode(bytes): ignoreBOM is false by default, so a leading
\* U+FEFF is dropped from the result
TextDecode(bytes) ==
  LET cps == Utf8Decode(bytes)
  IN  ToCodeUnits(IF cps # <<>> /\ cps[1] = 65279 THEN Tail(cps) ELSE cps)

RECURSIVE arrayBufferToBase64(_)
\* base64 text as the sequence of its digits 0..63, with 64 for the padding "="
arrayBufferToBase64(bytes) ==
  IF bytes = <<>> THEN <<>>
  ELSE IF Len(bytes) = 1
  THEN <<bytes[1] \div 4, (bytes[1] % 4) * 16, 64, 64>>
  ELSE IF Len(bytes) = 2
  THEN <<bytes[1] \div 4, (bytes[1] % 4) * 16 + (bytes[2] \div 16), (bytes[2] % 16) * 4, 64>>
  ELSE <<bytes[1] \div 4, (bytes[1] % 4) * 16 + (bytes[2] \div 16),
         (bytes[2] % 16) * 4 + (bytes[3] \div 64), bytes[3] % 64>>
         \o arrayBufferToBase64(SubSeq(bytes, 4, Len(bytes)))

RECURSIVE base64ToArrayBuffer(_)
base64ToArrayBuffer(base64) ==
  IF Len(base64) < 4 THEN <<>>
  ELSE IF base64[3] = 64
  THEN <<base64[1] * 4 + (base64[2] \div 16)>>
  ELSE IF base64[4] = 64
  THEN <<base64[1] * 4 + (base64[2] \div 16), (base64[2] % 16) * 16 + (base64[3] \div 4)>>
  ELSE <<base64[1] * 4 + (base64[2] \div 16), (base64[2] % 16) * 16 + (base64[3] \div 4),
         (base64[3] % 4) * 64 + base64[4]>>
         \o base64ToArrayBuffer(SubSeq(base64, 5, Len(base64)))

\* ----------------------------------------------------------------- AES-GCM
\* A stand-in cipher with the properties the codec relies on: decryption under
\* the same key and IV inverts encryption, and the tag binds key, IV and data.
KeyStream(key, iv, i) == (key * 31 + iv[1] * 17 + i) % 256

RECURSIVE SumOf(_)
SumOf(bytes) == IF bytes = <<>> THEN 0 ELSE bytes[1] + SumOf(Tail(bytes))

GcmTag(key, iv, data) == Pad(<<key, iv[1], Len(data), SumOf(data) % 256>>, TagLen)

\* encryptMessage(message, key, iv): ciphertext and authTag
encryptMessage(message, key, iv) ==
  LET data == TextEncode(message)
  IN  [ ciphertext |-> [i \in 1..Len(data) |-> (data[i] + KeyStream(key, iv, i)) % 256],
        authTag |-> GcmTag(key, iv, data) ]

\* decryptMessage(ciphertext, authTag, key, iv): the decoded text, or the error
\* thrown when the tag does not verify
decryptMessage(ciphertext, authTag, key, iv) ==
  LET decrypted == [i \in 1..Len(ciphertext) |->
                      (ciphertext[i] + 256 - KeyStream(key, iv, i)) % 256]
  IN  IF authTag = GcmTag(key, iv, decrypted)
      THEN [ok |-> TRUE, message |-> TextDecode(decrypted)]
      ELSE [ok |-> FALSE, message |-> <<>>]

\* ------------------------------------------------------------ message codec
Nonces == { Pad(<<n>>, NonceLen) : n \in 1..NumNonces }
IVs == { Pad(<<v>>, IVLen) : v \in 1..NumIVs }
Keys == 1..NumKeys
SequenceNumbers == 1..MaxSeq

\* createEncryptedMessage(message, senderId, receiverId, sessionKey,
\* sequenceNumber) without sessionMetadata: random nonce and IV
createEncryptedMessage(message, sessionKey, sequenceNumber) ==
  /\ created < MaxMessages
  /\ created' = created + 1
  /\ \E nonce \in Nonces, iv \in IVs :
       LET encrypted == encryptMessage(message, sessionKey, iv)
       IN  channel' = << [ encryptedMessage |->
                             [ senderId |-> "alice", receiverId |-> "bob",
                               ciphertext |-> arrayBufferToBase64(encrypted.ciphertext),
                               iv |-> arrayBufferToBase64(iv),
                               authTag |-> arrayBufferToBase64(encrypted.authTag),
                               timestamp |-> now,
                               nonce |-> arrayBufferToBase64(nonce),
                               sequenceNumber |-> sequenceNumber ],
                           delivered |-> FALSE ] >>
  /\ sent' = << [message |-> message, sessionKey |-> sessionKey] >>
  /\ UNCHANGED <<usedNonces, accepted, received>>

\* a replay set that is never added to
keepNonces(nonces, nonceStr) == nonces

\* usedNonces.add(nonceStr)
addNonce(nonces, nonceStr) == nonces \cup {nonceStr}

decryptReceivedMessage(encryptedMessage, sessionKey, expectedSequenceNumber) ==
  LET Reject(error) ==
        /\ received' = [isValid |-> FALSE, message |-> <<>>, error |-> error]
        /\ UNCHANGED <<channel, usedNonces, accepted>>
      messageAge == now - encryptedMessage.timestamp
      nonceStr == encryptedMessage.nonce
  IN
  /\ IF messageAge > MessageMaxAge
     THEN Reject("Message too old")
     ELSE IF nonceStr \in usedNonces
     THEN Reject("Nonce reused - possible replay attack")
     ELSE IF encryptedMessage.sequenceNumber # expectedSequenceNumber
     THEN Reject("Invalid sequence number")
     ELSE LET decrypted == decryptMessage(base64ToArrayBuffer(encryptedMessage.ciphertext),
                                          base64ToArrayBuffer(encryptedMessage.authTag),
                                          sessionKey,
                                          base64ToArrayBuffer(encryptedMessage.iv))
          IN  IF ~decrypted.ok
              THEN Reject("Decryption failed - message may be tampered")
              ELSE /\ usedNonces' = addNonce(usedNonces, nonceStr)
                   /\ accepted' = accepted \cup {nonceStr}
                   /\ channel' = [channel EXCEPT ![1].delivered = TRUE]
                   /\ received' = [isValid |-> TRUE, message |-> <<decrypted.message>>,
                                   error |-> ""]
  /\ UNCHANGED <<sent, created>>

\* the message in the channel with its nonce, sequenceNumber and timestamp
\* replaced
rewritten(nonce, sequenceNumber, timestamp) ==
  [channel[1].encryptedMessage EXCEPT !.nonce = arrayBufferToBase64(nonce),
                                      !.sequenceNumber = sequenceNumber,
                                      !.timestamp = timestamp]

\* decryptReceivedMessage on such a copy of the message in the channel
decryptRewritten(nonce, sequenceNumber, timestamp, sessionKey, expectedSequenceNumber) ==
  /\ channel # <<>>
  /\ decryptReceivedMessage(rewritten(nonce, sequenceNumber, timestamp), sessionKey,
                            expectedSequenceNumber)

\* ------------------------------------------------------------ the transport
\* A message reaches a handler as it was returned, or with the fields that no
\* signature covers rewritten on the way.
Timestamps == {StartTime, now}
SessionIds == 1..MaxSid

\* hello messages carry no signature: any user id may be claimed, with or
\* without a sessionId field naming one of the receiver's sessions
HelloInputs(u) ==
  { [createHelloMessage(v, u) EXCEPT !.sessionId = s, !.timestamp = t] :
       v \in Users \ {u}, s \in {NoSid} \cup DOMAIN sessions[u], t \in Timestamps }

\* hello messages that claim a user id and carry the keys of someone else
ForgedHelloInputs(u) ==
  { [createHelloMessage(v, u) EXCEPT !.ecdhPublicKey = Mallory, !.ecdsaPublicKey = Mallory] :
       v \in Users \ {u} }

\* the ephemeral message processHelloMessage returned for a session that user v
\* still holds
EphemeralMessageOf(v, s) ==
  [ type |-> "EPHEMERAL_KEY_EXCHANGE", sessionId |-> s,
    ephemeralPublicKey |-> sessions[v][s].localEphemeral,
    signature |-> Sign(v, sessions[v][s].localEphemeral), timestamp |-> now ]

Holders == { x \in Users \X SessionIds :
               x[2] \in DOMAIN sessions[x[1]] /\ sessions[x[1]][x[2]].localEphemeral # NoEph }

\* ephemeral messages: those returned by processHelloMessage, possibly delayed,
\* and the same keys signed with another key pair
EphemeralInputs ==
  { [EphemeralMessageOf(x[1], x[2]) EXCEPT !.timestamp = t] : x \in Holders, t \in Timestamps }
  \cup
  { [EphemeralMessageOf(x[1], x[2]) EXCEPT
        !.signature = Sign(Mallory, sessions[x[1]][x[2]].localEphemeral)] : x \in Holders }

\* challenge messages carry no signature: any challenge bytes may be sent under
\* the id of a pending challenge
ChallengeInputs ==
  { [createKeyConfirmationMessage(c, i) EXCEPT !.timestamp = t] :
      c \in Challenges, i \in 1..(nextCid - 1), t \in Timestamps }

\* the responses an instance returns to a challenge message it accepts
Responses ==
  { createKeyConfirmationResponse(
        respondToKeyConfirmation(m.challenge, sessions[x[1]][x[2]].keys[1]), m.challengeId) :
      x \in { y \in Users \X SessionIds :
                 y[2] \in DOMAIN sessions[y[1]] /\ HasKeys(sessions[y[1]][y[2]]) },
      m \in { c \in ChallengeInputs : validateKeyConfirmationMessage(c) } }

\* response messages: those returned, and copies that are delayed, have one
\* byte changed, one element outside 0..255, or one byte missing
ResponseInputs ==
  Responses \cup
  { [m EXCEPT !.timestamp = StartTime] : m \in Responses } \cup
  { [m EXCEPT !.response[1] = (@ + 1) % 256] : m \in Responses } \cup
  { [m EXCEPT !.response[1] = @ + 256] : m \in Responses } \cup
  { [m EXCEPT !.response = SubSeq(@, 1, HmacLen - 1)] : m \in Responses }

\* ------------------------------------------ keyExchange.js: signed ECDH
\* exportPublicKey: the raw bytes of an ephemeral public key
exportPublicKey(eph) == <<eph>>
\* importPublicKey: the key those raw bytes stand for
importPublicKey(keyData) == keyData[1]
performECDH(privateKey, publicKey) == DeriveBits(privateKey, publicKey)
deriveSessionKey(sharedSecret) == HKDF(sharedSecret, "SecureMessagingApp2024", "session-key")

\* the bytes that are signed: public key, timestamp as BigUint64, nonce; a
\* timestamp of this model is a natural number below 2^64 and is its own
\* BigUint64
signedData(keyData, timestamp, nonce) == <<keyData, timestamp, nonce>>

\* the message of initiateKeyExchange and of respondToKeyExchange; the
\* signature is carried as it is
keyExchangeMessage(type, senderId, receiverId, eph, nonce, signer) ==
  [ type |-> type, senderId |-> senderId, receiverId |-> receiverId,
    ephemeralPublicKey |-> arrayBufferToBase64(exportPublicKey(eph)),
    timestamp |-> now,
    nonce |-> arrayBufferToBase64(nonce),
    signature |-> Sign(signer, signedData(exportPublicKey(eph), now, nonce)) ]

\* verifySignature over the data reconstructed from a received message
isValidSignature(message, verifyKey) ==
  Verify(verifyKey, message.signature,
         signedData(base64ToArrayBuffer(message.ephemeralPublicKey), message.timestamp,
                    base64ToArrayBuffer(message.nonce)))

initiateKeyExchange(senderId, receiverId, nonce) ==
  /\ kxNextEph <= MaxKxEph
  /\ kxMessages' = kxMessages \cup
        { keyExchangeMessage("key_exchange_initiate", senderId, receiverId,
                             kxNextEph, nonce, senderId) }
  /\ ephemeralPrivateKeys' = [ephemeralPrivateKeys EXCEPT ![senderId] = @ \cup {kxNextEph}]
  /\ kxNextEph' = kxNextEph + 1
  /\ kxLast' = Result("initiateKeyExchange", TRUE, "")
  /\ UNCHANGED kxSessionKeys

\* receiverSigningKey is the receiver's own key, senderVerifyKey the key the
\* caller fetched for initiateMessage.senderId
respondToKeyExchange(initiateMessage, receiverSigningKey, senderVerifyKey, nonce) ==
  IF ~isValidSignature(initiateMessage, senderVerifyKey)
  THEN /\ kxLast' = Result("respondToKeyExchange", FALSE, "Key exchange response failed")
       /\ UNCHANGED <<kxMessages, ephemeralPrivateKeys, kxSessionKeys, kxNextEph>>
  ELSE /\ kxNextEph <= MaxKxEph
       /\ LET senderEphemeralPublicKey ==
                importPublicKey(base64ToArrayBuffer(initiateMessage.ephemeralPublicKey))
              sessionKey == deriveSessionKey(performECDH(kxNextEph, senderEphemeralPublicKey))
          IN  /\ kxSessionKeys' = [kxSessionKeys EXCEPT ![receiverSigningKey] = @ \cup {sessionKey}]
              /\ kxMessages' = kxMessages \cup
                   { keyExchangeMessage("key_exchange_response", initiateMessage.receiverId,
                        initiateMessage.senderId, kxNextEph, nonce, receiverSigningKey) }
       /\ kxNextEph' = kxNextEph + 1
       /\ kxLast' = Result("respondToKeyExchange", TRUE, "")
       /\ UNCHANGED ephemeralPrivateKeys

\* u is the user who holds ephemeralPrivateKey and calls completeKeyExchange
completeKeyExchange(u, responseMessage, ephemeralPrivateKey, receiverVerifyKey) ==
  /\ IF ~isValidSignature(responseMessage, receiverVerifyKey)
     THEN /\ kxLast' = Result("completeKeyExchange", FALSE, "Key exchange completion failed")
          /\ UNCHANGED kxSessionKeys
     ELSE LET receiverEphemeralPublicKey ==
                importPublicKey(base64ToArrayBuffer(responseMessage.ephemeralPublicKey))
              sessionKey == deriveSessionKey(performECDH(ephemeralPrivateKey,
                                                         receiverEphemeralPublicKey))
          IN  /\ kxSessionKeys' = [kxSessionKeys EXCEPT ![u] = @ \cup {sessionKey}]
              /\ kxLast' = Result("completeKeyExchange", TRUE, "")
  /\ UNCHANGED <<kxMessages, ephemeralPrivateKeys, kxNextEph>>

\* the messages of one type that reach user u: those sent to u, and copies
\* signed by another key or carrying the time of arrival as their timestamp
KxInputs(type, u) ==
  LET sentToU == { m \in kxMessages : m.type = type /\ m.receiverId = u }
  IN  sentToU
      \cup { [m EXCEPT !.signature.signer = Mallory] : m \in sentToU }
      \cup { [m EXCEPT !.timestamp = now] : m \in sentToU }

\* ------------------------------------------------------ the useMessaging hook
HookUser == "alice"
HookPeer == "bob"
RemoveAt(seq, i) == SubSeq(seq, 1, i - 1) \o SubSeq(seq, i + 1, Len(seq))

\* the object createEncryptedMessage returns
encryptedMessageOf(message, senderId, receiverId, sessionKey, sequenceNumber, nonce, iv, timestamp) ==
  LET encrypted == encryptMessage(message, sessionKey, iv)
  IN  [ senderId |-> senderId, receiverId |-> receiverId,
        ciphertext |-> arrayBufferToBase64(encrypted.ciphertext),
        iv |-> arrayBufferToBase64(iv),
        authTag |-> arrayBufferToBase64(encrypted.authTag),
        timestamp |-> timestamp,
        nonce |-> arrayBufferToBase64(nonce),
        sequenceNumber |-> sequenceNumber ]

\* decryptReceivedMessage up to its await: the error it returns, "" if none
decryptChecks(encryptedMessage, expectedSequenceNumber, nonces) ==
  IF now - encryptedMessage.timestamp > MessageMaxAge THEN "Message too old"
  ELSE IF encryptedMessage.nonce \in nonces THEN "Nonce reused - possible replay attack"
  ELSE IF encryptedMessage.sequenceNumber # expectedSequenceNumber
  THEN "Invalid sequence number"
  ELSE ""

\* decryptReceivedMessage from its await on: what decryptMessage returns
decryptAwaited(encryptedMessage, sessionKey) ==
  decryptMessage(base64ToArrayBuffer(encryptedMessage.ciphertext),
                 base64ToArrayBuffer(encryptedMessage.authTag),
                 sessionKey,
                 base64ToArrayBuffer(encryptedMessage.iv))

\* handleKeyExchangeInitiate / handleKeyExchangeResponse after the exchange:
\* sessionManager.storeSession and initializeSessionState
handleKeyExchange(sessionKey) ==
  /\ hookSessionKey = NoKey
  /\ hookSessionKey' = sessionKey
  /\ sequenceNumbers' = 0
  /\ peerNonces' = {}
  /\ hookLast' = Result("handleKeyExchange", TRUE, "")
  /\ UNCHANGED <<receivedMessageIds, sending, decrypting, sentSequence>>

\* sendEncryptedMessage up to the awaits of createEncryptedMessage and
\* apiService.sendMessage: nextSeq is read from the map
sendEncryptedMessage_begin ==
  IF hookSessionKey = NoKey
  THEN /\ hookLast' = Result("sendEncryptedMessage", FALSE, "Session not available for encryption")
       /\ UNCHANGED <<hookSessionKey, sequenceNumbers, peerNonces, receivedMessageIds,
                      sending, decrypting, sentSequence>>
  ELSE /\ Len(sending) < MaxSending
       /\ Len(sentSequence) + Len(sending) < MaxSent
       /\ LET currentSeq == sequenceNumbers
              nextSeq == currentSeq + 1
          IN  sending' = Append(sending, nextSeq)
       /\ hookLast' = Result("sendEncryptedMessage", TRUE, "awaiting")
       /\ UNCHANGED <<hookSessionKey, sequenceNumbers, peerNonces, receivedMessageIds,
                      decrypting, sentSequence>>

\* sendEncryptedMessage from the server's response on
sendEncryptedMessage_response(i, success) ==
  /\ i \in DOMAIN sending
  /\ sending' = RemoveAt(sending, i)
  /\ IF success
     THEN /\ sequenceNumbers' = sending[i]
          /\ sentSequence' = Append(sentSequence, sending[i])
          /\ hookLast' = Result("sendEncryptedMessage", TRUE, "")
     ELSE /\ hookLast' = Result("sendEncryptedMessage", FALSE, "Failed to send message")
          /\ UNCHANGED <<sequenceNumbers, sentSequence>>
  /\ UNCHANGED <<hookSessionKey, peerNonces, receivedMessageIds, decrypting>>

\* handleIncomingMessage up to the await inside decryptReceivedMessage
handleIncomingMessage(payload) ==
  LET Return(error) ==
        /\ hookLast' = Result("handleIncomingMessage", FALSE, error)
        /\ UNCHANGED <<sequenceNumbers, decrypting>>
      expectedSeq == sequenceNumbers
      incomingSeq == payload.sequenceNumber
      targetSeq == IF incomingSeq > expectedSeq + 1 THEN incomingSeq ELSE expectedSeq + 1
      adjusted == IF incomingSeq > expectedSeq + 1 THEN incomingSeq - 1 ELSE sequenceNumbers
      error == decryptChecks(payload, targetSeq, peerNonces)
  IN
  /\ IF payload.senderId = HookUser
     THEN Return("self-originated")
     ELSE IF hookSessionKey = NoKey
     THEN Return("No session found for sender")
     ELSE IF payload.id \in receivedMessageIds
     THEN Return("Duplicate message")
     ELSE IF incomingSeq < expectedSeq + 1
     THEN Return("Stale or duplicate message")
     ELSE IF error # ""
     THEN /\ sequenceNumbers' = adjusted
          /\ hookLast' = Result("handleIncomingMessage", FALSE, error)
          /\ UNCHANGED decrypting
     ELSE /\ Len(decrypting) < MaxDecrypting
          /\ sequenceNumbers' = adjusted
          /\ decrypting' = Append(decrypting, [payload |-> payload, targetSeq |-> targetSeq])
          /\ hookLast' = Result("handleIncomingMessage", TRUE, "awaiting")
  /\ UNCHANGED <<hookSessionKey, peerNonces, receivedMessageIds, sending, sentSequence>>

\* decryptReceivedMessage from its await on, and the then-callback of
\* handleIncomingMessage
handleIncomingMessage_then(i) ==
  /\ i \in DOMAIN decrypting
  /\ decrypting' = RemoveAt(decrypting, i)
  /\ LET payload == decrypting[i].payload
         result == decryptAwaited(payload, hookSessionKey)
     IN  IF result.ok
         THEN /\ peerNonces' = addNonce(peerNonces, payload.nonce)
              /\ sequenceNumbers' = decrypting[i].targetSeq
              /\ receivedMessageIds' = receivedMessageIds \cup {payload.id}
              /\ hookLast' = Result("handleIncomingMessage.then", TRUE, "")
         ELSE /\ hookLast' = Result("handleIncomingMessage.then", FALSE,
                                    "Decryption failed - message may be tampered")
              /\ UNCHANGED <<sequenceNumbers, peerNonces, receivedMessageIds>>
  /\ UNCHANGED <<hookSessionKey, sending, sentSequence>>

\* the payloads the socket delivers: messages the peer created under either
\* key with any sequence number, nonce and message id, now or earlier
Payloads ==
  { [id |-> id] @@ encryptedMessageOf(<<97>>, HookPeer, HookUser, k, n, nonce, iv, t) :
      id \in 1..NumMessageIds, k \in Keys, n \in 1..MaxPeerSeq, nonce \in Nonces,
      iv \in IVs, t \in Timestamps }

\* ------------------------------------------------------ SessionManager
manager == [sessions |-> smSessions, sessionTimeouts |-> sessionTimeouts, timers |-> timers]

\* a clearSession that deletes the entries and leaves the timeout armed
clearSessionOnly(mgr, userId) ==
  [ sessions |-> Remove(mgr.sessions, {userId}),
    sessionTimeouts |-> Remove(mgr.sessionTimeouts, {userId}),
    timers |-> mgr.timers ]

\* clearSession(userId): the manager as the call leaves it
clearSession(mgr, userId) ==
  IF userId \in DOMAIN mgr.sessionTimeouts
  THEN [ sessions |-> Remove(mgr.sessions, {userId}),
         sessionTimeouts |-> Remove(mgr.sessionTimeouts, {userId}),
         timers |-> Remove(mgr.timers, {mgr.sessionTimeouts[userId]}) ]
  ELSE [mgr EXCEPT !.sessions = Remove(@, {userId})]

\* the record storeSession stores
storedSession(sessionKey) ==
  [ sessionKey |-> sessionKey, usedNonces |-> {}, sequenceNumber |-> 0, createdAt |-> now ]

storeSession(userId, sessionKey) ==
  /\ nextTimeoutId <= MaxTimers
  /\ LET cleared == clearSession(manager, userId)
         timeoutId == nextTimeoutId
     IN  /\ smSessions' = Put(cleared.sessions, userId, storedSession(sessionKey))
         /\ timers' = Put(cleared.timers, timeoutId,
                          [userId |-> userId, deadline |-> now + SessionLifetime])
         /\ sessionTimeouts' = Put(cleared.sessionTimeouts, userId, timeoutId)
  /\ nextTimeoutId' = nextTimeoutId + 1
  /\ managerLast' = Result("storeSession", TRUE,
                           IF userId \in DOMAIN smSessions THEN "replaced" ELSE "")

\* a call of clearSession(userId) from outside the manager
clearSessionCall(userId) ==
  LET cleared == clearSession(manager, userId)
  IN  /\ smSessions' = cleared.sessions
      /\ sessionTimeouts' = cleared.sessionTimeouts
      /\ timers' = cleared.timers
      /\ managerLast' = Result("clearSession", TRUE, "")
      /\ UNCHANGED nextTimeoutId

\* the callback of an armed timeout, run once its delay has passed
timeoutFires(timeoutId) ==
  /\ timeoutId \in DOMAIN timers
  /\ now >= timers[timeoutId].deadline
  /\ LET fired == [manager EXCEPT !.timers = Remove(@, {timeoutId})]
         cleared == clearSession(fired, timers[timeoutId].userId)
     IN  /\ smSessions' = cleared.sessions
         /\ sessionTimeouts' = cleared.sessionTimeouts
         /\ timers' = cleared.timers
  /\ managerLast' = Result("timeout", TRUE, "")
  /\ UNCHANGED nextTimeoutId

\* a clearTimeout loop that cancels nothing
keepTimeouts(armed, timeoutIds) == armed

\* clearTimeout(timeoutId) for every id of a collection
clearTimeouts(armed, timeoutIds) == Remove(armed, timeoutIds)

clearAllSessions ==
  /\ timers' = clearTimeouts(timers, { sessionTimeouts[u] : u \in DOMAIN sessionTimeouts })
  /\ smSessions' = Empty
  /\ sessionTimeouts' = Empty
  /\ managerLast' = Result("clearAllSessions", TRUE,
                           IF sessionTimeouts = Empty THEN "" ELSE "timeouts cleared")
  /\ UNCHANGED nextTimeoutId

\* the clock of the page: a timeout whose delay has passed runs before the
\* clock moves on
Ticks == {SessionLifetime \div 2}
Tick(d) ==
  /\ now + d <= MaxManagerNow
  /\ \A id \in DOMAIN timers : timers[id].deadline >= now + d
  /\ now' = now + d
  /\ UNCHANGED <<identityKeys, peers, sessions, pendingChallenges, last, Ids>>

\* ------------------------------------- verifyKeyConfirmationResponse alone
\* the executions of responseBytes[i] !== expectedResponseBytes[i] from index
\* i on: the loop returns at the first difference
RECURSIVE comparisonsFrom(_, _, _)
comparisonsFrom(responseBytes, expectedResponseBytes, i) ==
  IF i > Len(responseBytes) THEN 0
  ELSE IF responseBytes[i] # expectedResponseBytes[i] THEN 1
  ELSE 1 + comparisonsFrom(responseBytes, expectedResponseBytes, i + 1)

\* the byte comparisons one call of verifyKeyConfirmationResponse performs
byteComparisons(response, expectedResponse) ==
  IF Len(ToUint8Array(response)) # Len(ToUint8Array(expectedResponse)) THEN 0
  ELSE comparisonsFrom(ToUint8Array(response), ToUint8Array(expectedResponse), 1)

\* the arrays a message can carry: numbers inside and outside 0..255
ReceivedArrays == UNION { [1..n -> {0, 1, 256}] : n \in 0..MaxResponseLen }
\* the arrays respondToKeyConfirmation computes: bytes
ExpectedArrays == UNION { [1..n -> {0, 1}] : n \in 0..MaxResponseLen }

verifyCall(response, expectedResponse) ==
  verifications' = << [ response |-> response, expectedResponse |-> expectedResponse,
                        result |-> verifyKeyConfirmationResponse(response, expectedResponse),
                        comparisons |-> byteComparisons(response, expectedResponse) ] >>

\* ------------------------------------------- the bytes the IV hash is fed
\* A counter is written as two 16-bit limbs, <<high, low>> for high * 2^16 + low,
\* so that counters around 2^32 can be written.
CounterLow(counter) == counter[2]
\* a conversion that keeps the low 16 bits only
Uint16Bytes(counter) ==
  << CounterLow(counter) % 256, CounterLow(counter) \div 256, 0, 0 >>

\* new Uint8Array(new Uint32Array([counter]).buffer): the counter modulo 2^32
\* as four bytes, lowest first
Uint32Bytes(counter) ==
  << CounterLow(counter) % 256, CounterLow(counter) \div 256,
     (counter[1] % Limb) % 256, (counter[1] % Limb) \div 256 >>

\* combined: [...ivSeed, ...counter bytes]
combined(ivSeed, counter) == ivSeed \o Uint32Bytes(counter)

\* messageCount is a double that ++ increments without a limit: counters near
\* 0, near 2^16 and on both sides of 2^32
Counters == { <<high, low>> : high \in {0, 1, Limb - 1, Limb}, low \in {0, 1, Limb - 1} }

generateDeterministicIV_pair(n, m) ==
  hashed' = << [ n |-> n, m |-> m,
                 hashedN |-> combined(<<sessionMetadata.ivSeed>>, n),
                 hashedM |-> combined(<<sessionMetadata.ivSeed>>, m) ] >>

\* the instance whose application-level calls (key use, cleanup) are explored
AppUsers == {"alice"}

Next ==
  \/ \E u \in Users : initialize(u) /\ UNCHANGED <<ivVars, codecVars, appVars>>
  \/ \E u \in Users : \E p \in Users \ {u} :
       startKeyExchange(u, p) /\ UNCHANGED <<ivVars, codecVars, appVars>>
  \/ \E u \in Users : \E m \in HelloInputs(u) :
       processHelloMessage(u, m) /\ UNCHANGED <<ivVars, codecVars, appVars>>
  \/ \E u \in Users, m \in EphemeralInputs, s \in SessionIds :
       processEphemeralMessage(u, m, s) /\ UNCHANGED <<ivVars, codecVars, appVars>>
  \/ \E u \in Users, m \in ChallengeInputs, s \in SessionIds :
       processKeyConfirmationChallenge(u, m, s) /\ UNCHANGED <<ivVars, codecVars, appVars>>
  \/ \E u \in Users, m \in ResponseInputs :
       processKeyConfirmationResponse(u, m) /\ UNCHANGED <<ivVars, codecVars, appVars>>
  \/ \E u \in AppUsers, s \in SessionIds :
       getSessionKeys(u, s) /\ UNCHANGED <<ivVars, codecVars, appVars>>
  \/ \E u \in AppUsers, s \in SessionIds :
       getNextIV(u, s) /\ UNCHANGED <<ivVars, codecVars, appVars>>
  \/ \E u \in AppUsers : cleanup(u) /\ UNCHANGED <<ivVars, codecVars, appVars>>
  \/ \E d \in Delays : AdvanceTime(d) /\ UNCHANGED <<ivVars, codecVars, appVars>>

Spec == Init /\ [][Next]_vars

\* one SessionKeys object under getNextIV and createEncryptedMessage calls
NextIV ==
  \/ KeyDerivation_getNextIV /\ UNCHANGED <<skepVars, codecVars, appVars>>
  \/ createEncryptedMessage_deriveIV /\ UNCHANGED <<skepVars, codecVars, appVars>>
  \/ createEncryptedMessage_increment /\ UNCHANGED <<skepVars, codecVars, appVars>>

SpecIV == Init /\ [][NextIV]_vars

\* one sender, one receiver and the clock
NextCodec ==
  \/ \E message \in Plaintexts, sessionKey \in Keys, sequenceNumber \in SequenceNumbers :
       /\ createEncryptedMessage(message, sessionKey, sequenceNumber)
       /\ UNCHANGED <<skepVars, ivVars, appVars>>
  \/ \E sessionKey \in Keys, expectedSequenceNumber \in SequenceNumbers :
       /\ channel # <<>>
       /\ decryptReceivedMessage(channel[1].encryptedMessage, sessionKey,
                                 expectedSequenceNumber)
       /\ UNCHANGED <<skepVars, ivVars, appVars>>
  \/ \E d \in Delays : AdvanceTime(d) /\ UNCHANGED <<ivVars, codecVars, appVars>>

SpecCodec == Init /\ [][NextCodec]_vars

\* the codec when the transport may rewrite the fields of a message that
\* neither the authentication tag nor a signature covers
NextReplay ==
  \/ \E message \in Plaintexts, sessionKey \in Keys, sequenceNumber \in SequenceNumbers :
       /\ createEncryptedMessage(message, sessionKey, sequenceNumber)
       /\ UNCHANGED <<skepVars, ivVars, appVars>>
  \/ \E sessionKey \in Keys, expectedSequenceNumber \in SequenceNumbers :
       \E nonce \in Nonces, sequenceNumber \in SequenceNumbers, timestamp \in Timestamps :
          /\ decryptRewritten(nonce, sequenceNumber, timestamp, sessionKey, expectedSequenceNumber)
          /\ UNCHANGED <<skepVars, ivVars, appVars>>
  \/ \E d \in Delays : AdvanceTime(d) /\ UNCHANGED <<ivVars, codecVars, appVars>>

SpecReplay == Init /\ [][NextReplay]_vars

\* two users running initiateKeyExchange, respondToKeyExchange and
\* completeKeyExchange against each other's messages, and the clock
NextKx ==
  \/ \E senderId \in Users, nonce \in Nonces : \E receiverId \in Users \ {senderId} :
       /\ initiateKeyExchange(senderId, receiverId, nonce)
       /\ UNCHANGED <<skepVars, ivVars, codecVars, hookVars, managerVars, verifications, hashed, lateVars>>
  \/ \E u \in Users, nonce \in Nonces : \E m \in KxInputs("key_exchange_initiate", u) :
       /\ respondToKeyExchange(m, u, m.senderId, nonce)
       /\ UNCHANGED <<skepVars, ivVars, codecVars, hookVars, managerVars, verifications, hashed, lateVars>>
  \/ \E u \in Users : \E m \in KxInputs("key_exchange_response", u) :
       \E ephemeralPrivateKey \in ephemeralPrivateKeys[u] :
          /\ completeKeyExchange(u, m, ephemeralPrivateKey, m.senderId)
          /\ UNCHANGED <<skepVars, ivVars, codecVars, hookVars, managerVars, verifications, hashed, lateVars>>
  \/ \E d \in Delays : AdvanceTime(d) /\ UNCHANGED <<ivVars, codecVars, appVars>>

SpecKx == Init /\ [][NextKx]_vars

\* one user's hook: the key exchange, sends, arrivals and the clock
NextHook ==
  \/ handleKeyExchange(1) /\ UNCHANGED <<skepVars, ivVars, codecVars, kxVars, managerVars, verifications, hashed, lateVars>>
  \/ sendEncryptedMessage_begin /\ UNCHANGED <<skepVars, ivVars, codecVars, kxVars, managerVars, verifications, hashed, lateVars>>
  \/ \E i \in 1..MaxSending, success \in BOOLEAN :
       sendEncryptedMessage_response(i, success)
          /\ UNCHANGED <<skepVars, ivVars, codecVars, kxVars, managerVars, verifications, hashed, lateVars>>
  \/ \E payload \in Payloads :
       handleIncomingMessage(payload) /\ UNCHANGED <<skepVars, ivVars, codecVars, kxVars, managerVars, verifications, hashed, lateVars>>
  \/ \E i \in 1..MaxDecrypting :
       handleIncomingMessage_then(i) /\ UNCHANGED <<skepVars, ivVars, codecVars, kxVars, managerVars, verifications, hashed, lateVars>>
  \/ \E d \in Delays : AdvanceTime(d) /\ UNCHANGED <<ivVars, codecVars, appVars>>

SpecHook == Init /\ [][NextHook]_vars

\* the session manager under its callers, its timeouts and the clock
NextManager ==
  \/ \E userId \in Users, sessionKey \in Keys :
       storeSession(userId, sessionKey) /\ UNCHANGED <<skepVars, ivVars, codecVars, kxVars, hookVars, verifications, hashed, lateVars>>
  \/ \E userId \in Users :
       clearSessionCall(userId) /\ UNCHANGED <<skepVars, ivVars, codecVars, kxVars, hookVars, verifications, hashed, lateVars>>
  \/ \E timeoutId \in 1..MaxTimers :
       timeoutFires(timeoutId) /\ UNCHANGED <<skepVars, ivVars, codecVars, kxVars, hookVars, verifications, hashed, lateVars>>
  \/ clearAllSessions /\ UNCHANGED <<skepVars, ivVars, codecVars, kxVars, hookVars, verifications, hashed, lateVars>>
  \/ \E d \in Ticks : Tick(d) /\ UNCHANGED <<ivVars, codecVars, appVars>>

SpecManager == Init /\ [][NextManager]_vars

\* the handshake handlers when hello messages may also carry forged keys
NextHello ==
  \/ \E u \in Users : initialize(u) /\ UNCHANGED <<ivVars, codecVars, appVars>>
  \/ \E u \in Users : \E m \in HelloInputs(u) \cup ForgedHelloInputs(u) :
       processHelloMessage(u, m) /\ UNCHANGED <<ivVars, codecVars, appVars>>
  \/ \E u \in Users, m \in EphemeralInputs, s \in SessionIds :
       processEphemeralMessage(u, m, s) /\ UNCHANGED <<ivVars, codecVars, appVars>>

SpecHello == Init /\ [][NextHello]_vars

\* verifyKeyConfirmationResponse on every pair of arrays
NextVerify ==
  \E response \in ReceivedArrays, expectedResponse \in ExpectedArrays :
     /\ verifyCall(response, expectedResponse)
     /\ UNCHANGED <<skepVars, ivVars, codecVars, kxVars, hookVars, managerVars, hashed, lateVars>>

SpecVerify == Init /\ [][NextVerify]_vars

\* ---------------------------------------------- the life of one set of keys
\* KeyExchangeProtocol's configuration
rekeyInterval == 10800000
maxMessagesPerKey == 1000

\* KeyDerivation.deriveSessionKeys: the returned object with its derivedAt
deriveSessionKeysAt(sharedSecret, salt, contextInfo) ==
  /\ derivedKeys' =
       << [ k \in DOMAIN deriveSessionKeys(sharedSecret, salt, contextInfo) \cup {"derivedAt"} |->
              IF k = "derivedAt" THEN wallClock
                                 ELSE deriveSessionKeys(sharedSecret, salt, contextInfo)[k] ] >>
  /\ UNCHANGED wallClock

\* KeyDerivation.getNextIV on the session's keys: messageCount++, no other test
getNextIVDerived ==
  /\ derivedKeys # <<>>
  /\ derivedKeys[1].messageCount < MaxUses
  /\ derivedKeys' = <<getNextIVKeys(derivedKeys[1])>>
  /\ UNCHANGED wallClock

Hours == {3600000}

\* Date.now() moves on; nothing is scheduled on it
Elapse(d) ==
  /\ wallClock + d <= MaxWallClock
  /\ wallClock' = wallClock + d
  /\ UNCHANGED derivedKeys

\* -------------------------------------------------- the backend's messages
\* mongoose.Types.ObjectId.isValid on the ids requests carry
NotAnId == "not-an-id"
isValid(id) == id # NotAnId

\* POST /contacts by user: the named user becomes the caller's contact
addContact(user, username) ==
  /\ IF username = ""
       THEN /\ storeLast' = Response("addContact", 400)
            /\ UNCHANGED contactDocs
       ELSE IF username \notin Users
       THEN /\ storeLast' = Response("addContact", 404)
            /\ UNCHANGED contactDocs
       ELSE IF <<user, username>> \in contactDocs
       THEN /\ storeLast' = Response("addContact", 409)
            /\ UNCHANGED contactDocs
       ELSE /\ contactDocs' = contactDocs \cup {<<user, username>>}
            /\ storeLast' = Response("addContact", 201)
  /\ UNCHANGED messageDocs

\* the bodies of send-message requests; sequenceNumber may be left out
BodySequenceNumbers == -1..MaxStoredSeq
StoreNonces == {"", "n1", "n2"}
Contents == {"", "c1"}
Bodies ==
  [receiverId : Users \cup {NotAnId}, encryptedContent : Contents, nonce : StoreNonces]
    \cup [receiverId : Users \cup {NotAnId}, encryptedContent : Contents, nonce : StoreNonces,
          sequenceNumber : BodySequenceNumbers]

\* Contact.findOne with the $or of both directions
contactExists(a, b) == <<a, b>> \in contactDocs \/ <<b, a>> \in contactDocs

\* the document new Message({...}) builds from the request
newMessage(user, body) ==
  [ senderId |-> user, receiverId |-> body.receiverId,
    encryptedContent |-> body.encryptedContent, nonce |-> body.nonce,
    sequenceNumber |-> body.sequenceNumber ]

\* POST /messages by user
sendMessage(user, body) ==
  /\ IF body.encryptedContent = "" \/ body.nonce = ""
       THEN /\ storeLast' = Response("sendMessage", 400)
            /\ UNCHANGED messageDocs
       ELSE IF ~isValid(body.receiverId)
       THEN /\ storeLast' = Response("sendMessage", 400)
            /\ UNCHANGED messageDocs
       ELSE IF ~contactExists(user, body.receiverId)
       THEN /\ storeLast' = Response("sendMessage", 404)
            /\ UNCHANGED messageDocs
       ELSE IF "sequenceNumber" \notin DOMAIN body \/ body.sequenceNumber < 0
       THEN /\ storeLast' = Response("sendMessage", 400)
            /\ UNCHANGED messageDocs
       ELSE /\ Len(messageDocs) < MaxStored
            /\ messageDocs' = Append(messageDocs, newMessage(user, body))
            /\ storeLast' = Response("sendMessage", 201)
  /\ UNCHANGED contactDocs

\* ------------------------------------------------------- the backend's login
OtpLifetime == 600000
MinPasswordLength == 6
NoOtp == ""

EmailOf == [alice |-> "alice@example.com", bob |-> "bob@example.com"]
Identifiers == Users \cup { EmailOf[u] : u \in Users } \cup {"", Mallory}
Passwords == {"", "pw", "password1", "password2"}
RegisterPasswords == {"", "pw", "password1"}
Otps == {"483920", "717171"}

\* the bcrypt hash the pre-save hook stores, and comparePassword against it
bcryptHash(password) == [hash |-> password]
comparePassword(user, candidatePassword) == user.password = bcryptHash(candidatePassword)

\* User.findOne({ $or: [{ username: identifier }, { email: identifier }] })
findUsers(identifier) ==
  { u \in DOMAIN userDocs : u = identifier \/ userDocs[u].email = identifier }

\* POST /register
register(username, password) ==
  /\ IF password = ""
       THEN /\ authLast' = Response("register", 400)
            /\ UNCHANGED userDocs
       ELSE IF Len(username) < 3 \/ Len(username) > 50 \/ Len(password) < MinPasswordLength
       THEN /\ authLast' = Response("register", 400)
            /\ UNCHANGED userDocs
       ELSE IF findUsers(username) # {} \/ findUsers(EmailOf[username]) # {}
       THEN /\ authLast' = Response("register", 400)
            /\ UNCHANGED userDocs
       ELSE /\ userDocs' = [ u \in DOMAIN userDocs \cup {username} |->
                               IF u = username
                               THEN [ email |-> EmailOf[username], password |-> bcryptHash(password),
                                      otp |-> NoOtp, otpExpires |-> NoTime ]
                               ELSE userDocs[u] ]
            /\ authLast' = Response("register", 201)
  /\ UNCHANGED <<authClock, verifying, sentOtps, tokens>>

\* the OTP e-mails sent so far
SentOtps == sentOtps.alice + sentOtps.bob

\* POST /login: a fresh code (crypto.randomInt) is stored with its expiry and mailed
login(identifier, password, otp) ==
  /\ IF identifier = "" \/ password = ""
       THEN /\ authLast' = Response("login", 400)
            /\ UNCHANGED <<userDocs, sentOtps>>
       ELSE IF findUsers(identifier) = {}
       THEN /\ authLast' = Response("login", 401)
            /\ UNCHANGED <<userDocs, sentOtps>>
       ELSE LET u == CHOOSE u \in findUsers(identifier) : TRUE
            IN  IF ~comparePassword(userDocs[u], password)
                THEN /\ authLast' = Response("login", 401)
                     /\ UNCHANGED <<userDocs, sentOtps>>
                ELSE /\ SentOtps < MaxLogins
                     /\ userDocs' = [userDocs EXCEPT ![u].otp = otp,
                                                     ![u].otpExpires = authClock + OtpLifetime]
                     /\ sentOtps' = [sentOtps EXCEPT ![u] = @ + 1]
                     /\ authLast' = Response("login", 200)
  /\ UNCHANGED <<authClock, verifying, tokens>>

\* POST /verify-otp up to its await user.save(): the document is read and tested
verifyOtp(identifier, otp) ==
  /\ IF identifier = "" \/ otp = NoOtp
       THEN /\ authLast' = Response("verifyOtp", 400)
            /\ UNCHANGED verifying
       ELSE IF findUsers(identifier) = {}
       THEN /\ authLast' = Response("verifyOtp", 401)
            /\ UNCHANGED verifying
       ELSE LET u == CHOOSE u \in findUsers(identifier) : TRUE
            IN  IF userDocs[u].otp # otp \/ userDocs[u].otpExpires < authClock
                THEN /\ authLast' = Response("verifyOtp", 401)
                     /\ UNCHANGED verifying
                ELSE /\ Len(verifying) < MaxVerifying
                     /\ verifying' = Append(verifying, [user |-> u, otp |-> otp])
                     /\ authLast' = Response("verifyOtp", 0)
  /\ UNCHANGED <<userDocs, authClock, sentOtps, tokens>>

\* the rest of verify-otp: user.save() clears otp and otpExpires, the token is sent
verifyOtp_save(i) ==
  /\ i \in DOMAIN verifying
  /\ userDocs' = [userDocs EXCEPT ![verifying[i].user].otp = NoOtp,
                                  ![verifying[i].user].otpExpires = NoTime]
  /\ tokens' = [tokens EXCEPT ![verifying[i].user] = @ + 1]
  /\ verifying' = RemoveAt(verifying, i)
  /\ authLast' = Response("verifyOtp", 200)
  /\ UNCHANGED <<authClock, sentOtps>>

AuthTicks == {OtpLifetime + 1}

\* the server's clock moves on
AuthTick(d) ==
  /\ authClock + d <= MaxAuthNow
  /\ authClock' = authClock + d
  /\ UNCHANGED <<userDocs, verifying, sentOtps, tokens, authLast>>

\* ------------------------------------- two useMessaging hooks and the server
\* the nonce of a key-exchange message: random bytes that no key depends on
KxNonces == { Pad(<<1>>, NonceLen) }

\* the session key a side derives from its private key and the other's message
sessionKeyOf(privateKey, message) ==
  deriveSessionKey(performECDH(privateKey,
      importPublicKey(base64ToArrayBuffer(message.ephemeralPublicKey))))

\* the request that carries an encrypted message, and the one that carries a
\* key-exchange message with the public key eph
messageRequest(u, targetUserId, content) ==
  [ kind |-> "message", from |-> u, to |-> targetUserId, content |-> content,
    key |-> peerSessions[u][targetUserId] ]
exchangeRequest(type, u, targetUserId, eph) ==
  [ kind |-> type, from |-> u, to |-> targetUserId, eph |-> eph ]

\* queueMessageForUser: the push, onto a new array if the map has none
queueMessageForUser(u, targetUserId, content) ==
  IF targetUserId \in DOMAIN pendingMessages[u]
  THEN /\ queues' = [queues EXCEPT ![pendingMessages[u][targetUserId]] = Append(@, content)]
       /\ UNCHANGED pendingMessages
  ELSE /\ queues' = Append(queues, <<content>>)
       /\ pendingMessages' = [pendingMessages EXCEPT ![u] =
                                 Put(@, targetUserId, Len(queues) + 1)]

\* ensureKeyExchange: nothing within KEY_EXCHANGE_RETRY_DELAY of the last
\* attempt, which is as long as receiverId is in pendingSessions here
ensureKeyExchange(u, receiverId, nonce) ==
  IF receiverId \in pendingSessions[u]
  THEN UNCHANGED <<exchanges, pendingExchanges, pendingSessions, outbox, nextExchangeEph>>
  ELSE /\ Len(exchanges) < MaxExchanges
       /\ exchanges' = Append(exchanges,
            [ initiate |-> keyExchangeMessage("key_exchange_initiate", u, receiverId,
                                              nextExchangeEph, nonce, u),
              initiateHandled |-> "no", response |-> <<>>, responseHandled |-> "no" ])
       /\ pendingExchanges' = [pendingExchanges EXCEPT ![u] =
            Put(@, Len(exchanges) + 1,
                [userId |-> receiverId, ephemeralPrivateKey |-> nextExchangeEph])]
       /\ pendingSessions' = [pendingSessions EXCEPT ![u] = @ \cup {receiverId}]
       /\ outbox' = Append(outbox,
            exchangeRequest("key_exchange_initiate", u, receiverId, nextExchangeEph))
       /\ nextExchangeEph' = nextExchangeEph + 1

\* sendMessage of the hook: queued behind a key exchange without a session,
\* sent at once with one; success is the server's answer
hookSendMessage(u, receiverId, nonce, success) ==
  /\ nextContent <= MaxContents
  /\ nextContent' = nextContent + 1
  /\ IF receiverId \notin DOMAIN peerSessions[u]
     THEN /\ ensureKeyExchange(u, receiverId, nonce)
          /\ queueMessageForUser(u, receiverId, nextContent)
     ELSE /\ outbox' = IF success
                       THEN Append(outbox, messageRequest(u, receiverId, nextContent))
                       ELSE outbox
          /\ UNCHANGED <<exchanges, pendingExchanges, pendingSessions, nextExchangeEph,
                         queues, pendingMessages>>
  /\ UNCHANGED <<peerSessions, flushing>>

\* flushQueuedMessages returns at once: no array for the peer, or an empty one
nothingQueued(u, targetUserId) ==
  \/ targetUserId \notin DOMAIN pendingMessages[u]
  \/ queues[pendingMessages[u][targetUserId]] = <<>>

\* a flushQueuedMessages call before its first await; respond holds what the
\* caller does after it
flushOf(u, targetUserId, respond) ==
  [ user |-> u, target |-> targetUserId, queue |-> pendingMessages[u][targetUserId],
    index |-> 1, respond |-> respond ]

handleKeyExchangeInitiate(u, exchangeId, nonce, tampered) ==
  /\ exchangeId \in DOMAIN exchanges
  /\ exchanges[exchangeId].initiate.receiverId = u
  /\ exchanges[exchangeId].initiateHandled = "no"
  /\ LET delivered == exchanges[exchangeId].initiate
         payload == IF tampered THEN [delivered EXCEPT !.signature.signer = Mallory] ELSE delivered
         fromUserId == payload.senderId
     IN  IF ~isValidSignature(payload, fromUserId)
         THEN /\ exchanges' = [exchanges EXCEPT ![exchangeId].initiateHandled = "failed"]
              /\ UNCHANGED <<pendingSessions, peerSessions, flushing, outbox, nextExchangeEph>>
         ELSE LET responseMessage ==
                    keyExchangeMessage("key_exchange_response", u, fromUserId,
                                       nextExchangeEph, nonce, u)
                  respond == << [ exchangeId |-> exchangeId, message |-> responseMessage,
                                  eph |-> nextExchangeEph ] >>
              IN  /\ peerSessions' = [peerSessions EXCEPT ![u] =
                        Put(@, fromUserId, sessionKeyOf(nextExchangeEph, payload))]
                  /\ pendingSessions' = [pendingSessions EXCEPT ![u] = @ \ {fromUserId}]
                  /\ nextExchangeEph' = nextExchangeEph + 1
                  /\ IF nothingQueued(u, fromUserId)
                     THEN /\ exchanges' = [exchanges EXCEPT
                                ![exchangeId].initiateHandled = "yes",
                                ![exchangeId].response = <<responseMessage>>]
                          /\ outbox' = Append(outbox,
                                exchangeRequest("key_exchange_response", u, fromUserId,
                                                nextExchangeEph))
                          /\ UNCHANGED flushing
                     ELSE /\ exchanges' = [exchanges EXCEPT ![exchangeId].initiateHandled = "yes"]
                          /\ flushing' = Append(flushing, flushOf(u, fromUserId, respond))
                          /\ UNCHANGED outbox
  /\ UNCHANGED <<pendingExchanges, queues, pendingMessages, nextContent>>

handleKeyExchangeResponse(u, exchangeId, tampered) ==
  /\ exchangeId \in DOMAIN exchanges
  /\ exchanges[exchangeId].initiate.senderId = u
  /\ exchanges[exchangeId].response # <<>>
  /\ exchanges[exchangeId].responseHandled = "no"
  /\ IF exchangeId \notin DOMAIN pendingExchanges[u]
     THEN /\ exchanges' = [exchanges EXCEPT ![exchangeId].responseHandled = "failed"]
          /\ UNCHANGED <<pendingExchanges, pendingSessions, peerSessions, flushing>>
     ELSE LET delivered == exchanges[exchangeId].response[1]
              payload == IF tampered THEN [delivered EXCEPT !.signature.signer = Mallory] ELSE delivered
              pendingExchange == pendingExchanges[u][exchangeId]
          IN  /\ pendingExchanges' = [pendingExchanges EXCEPT ![u] = Remove(@, {exchangeId})]
              /\ IF ~isValidSignature(payload, payload.senderId)
                 THEN /\ exchanges' = [exchanges EXCEPT ![exchangeId].responseHandled = "failed"]
                      /\ UNCHANGED <<pendingSessions, peerSessions, flushing>>
                 ELSE /\ exchanges' = [exchanges EXCEPT ![exchangeId].responseHandled = "yes"]
                      /\ peerSessions' = [peerSessions EXCEPT ![u] =
                            Put(@, pendingExchange.userId,
                                sessionKeyOf(pendingExchange.ephemeralPrivateKey, payload))]
                      /\ pendingSessions' = [pendingSessions EXCEPT ![u] =
                            @ \ {pendingExchange.userId}]
                      /\ flushing' = IF nothingQueued(u, pendingExchange.userId)
                                     THEN flushing
                                     ELSE Append(flushing,
                                                 flushOf(u, pendingExchange.userId, <<>>))
  /\ UNCHANGED <<queues, pendingMessages, outbox, nextExchangeEph, nextContent>>

\* one turn of the loop of flushQueuedMessages: sendEncryptedMessage for the
\* entry at index succeeds or throws; after the last entry the map entry is
\* deleted and the caller goes on
flushQueuedMessages_step(i, success) ==
  /\ i \in DOMAIN flushing
  /\ LET f == flushing[i]
         queue == queues[f.queue]
         isSent == success /\ f.target \in DOMAIN peerSessions[f.user]
         afterSend == IF isSent
                      THEN Append(outbox, messageRequest(f.user, f.target, queue[f.index]))
                      ELSE outbox
     IN  /\ f.index <= Len(queue)
         /\ IF f.index + 1 > Len(queue)
            THEN /\ pendingMessages' = [pendingMessages EXCEPT ![f.user] = Remove(@, {f.target})]
                 /\ flushing' = RemoveAt(flushing, i)
                 /\ IF f.respond # <<>>
                    THEN /\ exchanges' = [exchanges EXCEPT
                               ![f.respond[1].exchangeId].response = <<f.respond[1].message>>]
                         /\ outbox' = Append(afterSend,
                               exchangeRequest("key_exchange_response", f.user, f.target,
                                               f.respond[1].eph))
                    ELSE /\ outbox' = afterSend
                         /\ UNCHANGED exchanges
            ELSE /\ flushing' = [flushing EXCEPT ![i].index = @ + 1]
                 /\ outbox' = afterSend
                 /\ UNCHANGED <<pendingMessages, exchanges>>
  /\ UNCHANGED <<pendingExchanges, pendingSessions, peerSessions, queues,
                 nextExchangeEph, nextContent>>

\* the IV derivation on every pair of counters
NextCounter ==
  \E n \in Counters, m \in Counters :
     /\ generateDeterministicIV_pair(n, m)
     /\ UNCHANGED <<skepVars, ivVars, codecVars, kxVars, hookVars, managerVars, verifications, lateVars>>

SpecCounter == Init /\ [][NextCounter]_vars

\* one long-lived session: its keys are derived, used message after message,
\* and the clock moves on
NextRekey ==
  \/ \E salt \in Salts :
       deriveSessionKeysAt(1, salt, "session") /\ UNCHANGED <<earlyVars, storeVars, authVars, duoVars, heldResponses, numericCode>>
  \/ getNextIVDerived /\ UNCHANGED <<earlyVars, storeVars, authVars, duoVars, heldResponses, numericCode>>
  \/ \E d \in Hours :
       Elapse(d) /\ UNCHANGED <<earlyVars, storeVars, authVars, duoVars, heldResponses, numericCode>>

SpecRekey == Init /\ [][NextRekey]_vars

\* the contacts and messages routes under every request
NextStore ==
  \/ \E user \in Users, username \in Users \cup {"", Mallory} :
       addContact(user, username) /\ UNCHANGED <<earlyVars, rekeyVars, authVars, duoVars, heldResponses, numericCode>>
  \/ \E user \in Users, body \in Bodies :
       sendMessage(user, body) /\ UNCHANGED <<earlyVars, rekeyVars, authVars, duoVars, heldResponses, numericCode>>

SpecStore == Init /\ [][NextStore]_vars

\* the auth routes under every request, with verify-otp requests in flight
NextAuth ==
  \/ \E username \in Users, password \in RegisterPasswords :
       register(username, password) /\ UNCHANGED <<earlyVars, rekeyVars, storeVars, duoVars, heldResponses, numericCode>>
  \/ \E identifier \in Identifiers, password \in Passwords, otp \in Otps :
       login(identifier, password, otp) /\ UNCHANGED <<earlyVars, rekeyVars, storeVars, duoVars, heldResponses, numericCode>>
  \/ \E identifier \in Identifiers, otp \in Otps \cup {NoOtp} :
       verifyOtp(identifier, otp) /\ UNCHANGED <<earlyVars, rekeyVars, storeVars, duoVars, heldResponses, numericCode>>
  \/ \E i \in 1..MaxVerifying :
       verifyOtp_save(i) /\ UNCHANGED <<earlyVars, rekeyVars, storeVars, duoVars, heldResponses, numericCode>>
  \/ \E d \in AuthTicks :
       AuthTick(d) /\ UNCHANGED <<earlyVars, rekeyVars, storeVars, duoVars, heldResponses, numericCode>>

SpecAuth == Init /\ [][NextAuth]_vars

\* two hooks: messages are sent, key exchanges are started and handled, queues
\* are flushed
NextDuo ==
  \/ \E u \in Users, nonce \in KxNonces, success \in BOOLEAN : \E receiverId \in Users \ {u} :
       hookSendMessage(u, receiverId, nonce, success) /\ UNCHANGED <<earlyVars, rekeyVars, storeVars, authVars, heldResponses, numericCode>>
  \/ \E u \in Users, exchangeId \in 1..MaxExchanges, nonce \in KxNonces, tampered \in BOOLEAN :
       handleKeyExchangeInitiate(u, exchangeId, nonce, tampered) /\ UNCHANGED <<earlyVars, rekeyVars, storeVars, authVars, heldResponses, numericCode>>
  \/ \E u \in Users, exchangeId \in 1..MaxExchanges, tampered \in BOOLEAN :
       handleKeyExchangeResponse(u, exchangeId, tampered) /\ UNCHANGED <<earlyVars, rekeyVars, storeVars, authVars, heldResponses, numericCode>>
  \/ \E i \in 1..MaxFlushing, success \in BOOLEAN :
       flushQueuedMessages_step(i, success) /\ UNCHANGED <<earlyVars, rekeyVars, storeVars, authVars, heldResponses, numericCode>>

SpecDuo == Init /\ [][NextDuo]_vars

\* ------------------------------------------------------------ the handshake
\* user u holds session s
Holds(u, s) == s \in DOMAIN sessions[u]

\* u started session s with startKeyExchange and its peer answered the hello
\* afterwards with processHelloMessage, which created the peer's session t
StartedAndAnswered(u, s, t) ==
  /\ Holds(u, s) /\ sessions[u][s].status = "initiated"
  /\ sessions[u][s].peerId \in Users
  /\ Holds(sessions[u][s].peerId, t) /\ t > s
  /\ sessions[sessions[u][s].peerId][t].peerId = u
  /\ sessions[sessions[u][s].peerId][t].status = "ephemeral_created"

\* C1: after Alice's startKeyExchange(bob) and Bob's processHelloMessage of her
\* hello, Alice's processEphemeralMessage of Bob's validly signed ephemeral
\* message, with the session id startKeyExchange returned, succeeds: the session
\* moves to keys_derived with its keys stored and a challenge is pending.
C1_HandshakeSucceeds ==
  [][ \A u \in Users, s \in SessionIds, t \in SessionIds :
        ( /\ StartedAndAnswered(u, s, t)
          /\ processEphemeralMessage(u, EphemeralMessageOf(sessions[u][s].peerId, t), s) )
        => ( /\ last'.ok
             /\ sessions'[u][s].status = "keys_derived"
             /\ HasKeys(sessions'[u][s])
             /\ DOMAIN pendingChallenges'[u] # DOMAIN pendingChallenges[u] ) ]_vars

\* sessions s of u and t of v belong to one handshake of two honest parties:
\* each names the other as peer and each derived its keys from the ECDH of its
\* own ephemeral key with the other's
HonestPair(u, s, v, t) ==
  /\ u # v /\ Holds(u, s) /\ Holds(v, t)
  /\ sessions[u][s].peerId = v /\ sessions[v][t].peerId = u
  /\ HasKeys(sessions[u][s]) /\ HasKeys(sessions[v][t])
  /\ sessions[u][s].localEphemeral # sessions[v][t].localEphemeral
  /\ sessions[u][s].sharedSecret =
       DeriveBits(sessions[u][s].localEphemeral, sessions[v][t].localEphemeral)
  /\ sessions[v][t].sharedSecret =
       DeriveBits(sessions[v][t].localEphemeral, sessions[u][s].localEphemeral)

\* C2: two honest parties that each ran processEphemeralMessage on the other's
\* validly signed ephemeral key hold identical session keys: the same
\* encryption key and the same confirmation HMAC key.
C2_SameSessionKeys ==
  \A u \in Users, v \in Users, s \in SessionIds, t \in SessionIds :
    HonestPair(u, s, v, t) =>
      /\ sessions[u][s].keys[1].encryptionKey = sessions[v][t].keys[1].encryptionKey
      /\ sessions[u][s].keys[1].hmacKey = sessions[v][t].keys[1].hmacKey

\* the response message v's processKeyConfirmationChallenge returns, for
\* session t, to the challenge c sent under challenge id i
ResponseOf(v, t, c, i) ==
  createKeyConfirmationResponse(respondToKeyConfirmation(c, sessions[v][t].keys[1]), i)

\* challenge id i is pending at u for session s and was issued over challenge c
PendingFor(u, i, s, c) ==
  /\ i \in DOMAIN pendingChallenges[u]
  /\ pendingChallenges[u][i].sessionId = s
  /\ Holds(u, s) /\ HasKeys(sessions[u][s])
  /\ pendingChallenges[u][i].expectedResponse = HmacSign(sessions[u][s].keys[1].hmacKey, c)

Confirmed(u, s) == Holds(u, s) /\ sessions[u][s].status = "confirmed"

\* C4: a session becomes confirmed only in a step of
\* processKeyConfirmationResponse that accepts a response whose bytes equal the
\* expectedResponse of a challenge pending for that session id.
C4_ConfirmedOnlyByResponse ==
  [][ \A u \in Users, s \in SessionIds :
        ( Confirmed(u, s)' /\ ~Confirmed(u, s) )
        => \E m \in ResponseInputs :
             /\ processKeyConfirmationResponse(u, m)
             /\ last'.ok
             /\ m.challengeId \in DOMAIN pendingChallenges[u]
             /\ pendingChallenges[u][m.challengeId].sessionId = s
             /\ ToUint8Array(m.response) =
                  pendingChallenges[u][m.challengeId].expectedResponse ]_vars

\* C4 (witness): a response was accepted and left a session confirmed
C4_Witness ==
  /\ last = Result("processKeyConfirmationResponse", TRUE, "")
  /\ \E u \in Users, s \in SessionIds : Confirmed(u, s)

\* C5: getSessionKeys and getNextIV refuse a session that is not confirmed and
\* leave its messageCount unchanged.
C5_KeysOnlyWhenConfirmed ==
  [][ \A u \in Users, s \in SessionIds :
        ( /\ Holds(u, s) /\ ~Confirmed(u, s)
          /\ (getSessionKeys(u, s) \/ getNextIV(u, s)) )
        => ( ~last'.ok /\ sessions'[u][s] = sessions[u][s] ) ]_vars

\* message m reaches session s of u, passes validation, and its signature does
\* not verify under the stored ECDSA public key of the session's peer
BadSignature(u, m, s) ==
  /\ validateEphemeralMessage(m)
  /\ Holds(u, s)
  /\ sessions[u][s].peerId \in DOMAIN peers[u]
  /\ ~Verify(peers[u][sessions[u][s].peerId].ecdsaPublicKey, m.signature,
             m.ephemeralPublicKey)

\* C9: when the signature on a received ephemeral key does not verify under the
\* peer's stored ECDSA key, verifyAndDeriveSharedSecret and
\* processEphemeralMessage fail, the session keeps its status without a shared
\* secret or keys being stored, and no pending challenge is created.
C9_BadSignatureChangesNothing ==
  [][ \A u \in Users, m \in EphemeralInputs, s \in SessionIds :
        ( BadSignature(u, m, s) /\ processEphemeralMessage(u, m, s) )
        => ( /\ ~verifyAndDeriveSharedSecret(sessions[u][s], m,
                    peers[u][sessions[u][s].peerId].ecdsaPublicKey).ok
             /\ last' = Result("processEphemeralMessage", FALSE, "Invalid signature")
             /\ sessions' = sessions
             /\ pendingChallenges' = pendingChallenges ) ]_vars

\* C9 (witness): a call was rejected for its signature while a session that had
\* reached ephemeral_created is still in that state
C9_Witness ==
  /\ last = Result("processEphemeralMessage", FALSE, "Invalid signature")
  /\ \E u \in Users, s \in SessionIds :
       /\ Holds(u, s) /\ sessions[u][s].status = "ephemeral_created"
       /\ sessions[u][s].sharedSecret = {}

\* C10: after processEphemeralMessage fails verification for a session, the
\* session is no longer in the session map.
C10_FailedSessionDiscarded ==
  [][ \A u \in Users, m \in EphemeralInputs, s \in SessionIds :
        ( BadSignature(u, m, s) /\ processEphemeralMessage(u, m, s) )
        => ~Holds(u, s)' ]_vars

\* ----------------------------------------------------------- IV uniqueness
\* C6: for one SessionKeys object, no two IVs are derived from the same counter
\* value, whatever the order of getNextIV and createEncryptedMessage calls.
C6_DistinctCounters ==
  \A i \in 1..Len(ivInputs), j \in 1..Len(ivInputs) :
    i # j => ivInputs[i].counter # ivInputs[j].counter

\* ------------------------------------------------------------ replay guard
\* the message in the channel was accepted before and is submitted again
Resubmitted(sessionKey, expectedSequenceNumber) ==
  /\ channel # <<>>
  /\ channel[1].delivered
  /\ decryptReceivedMessage(channel[1].encryptedMessage, sessionKey, expectedSequenceNumber)

\* C7 (as stated): a message that decryptReceivedMessage accepted is, when
\* submitted again with the same usedNonces, rejected with the nonce-reuse
\* error, and usedNonces holds the nonce of every accepted message.
C7_ReplayIsNonceReuse ==
  [][ /\ \A sessionKey \in Keys, expectedSequenceNumber \in SequenceNumbers :
           Resubmitted(sessionKey, expectedSequenceNumber)
           => received' = [ isValid |-> FALSE, message |-> <<>>,
                            error |-> "Nonce reused - possible replay attack" ]
      /\ accepted' \subseteq usedNonces' ]_vars

\* C7 (amended): a message that decryptReceivedMessage accepted is rejected
\* when submitted again with the same usedNonces, as too old once more than
\* five minutes have passed since its timestamp and with the nonce-reuse error
\* before that; usedNonces holds the nonce of every accepted message.
C7_ReplayRejected ==
  [][ /\ \A sessionKey \in Keys, expectedSequenceNumber \in SequenceNumbers :
           Resubmitted(sessionKey, expectedSequenceNumber)
           => /\ received' =
                   [ isValid |-> FALSE, message |-> <<>>,
                     error |-> IF now - channel[1].encryptedMessage.timestamp > MessageMaxAge
                               THEN "Message too old"
                               ELSE "Nonce reused - possible replay attack" ]
              /\ usedNonces' = usedNonces
      /\ accepted' \subseteq usedNonces' ]_vars

\* C7 (witness): an accepted message was submitted again and rejected as a
\* replay
C7_Witness ==
  /\ channel # <<>> /\ channel[1].delivered
  /\ channel[1].encryptedMessage.nonce \in accepted
  /\ received.error = "Nonce reused - possible replay attack"

\* C8: a message created from plaintext P under key K and sequence number s
\* decrypts, under the same K and s, within five minutes and with an unused
\* nonce, to isValid with message P.
C8_RoundTrip ==
  [][ \A sessionKey \in Keys, expectedSequenceNumber \in SequenceNumbers :
        ( /\ channel # <<>>
          /\ sessionKey = sent[1].sessionKey
          /\ expectedSequenceNumber = channel[1].encryptedMessage.sequenceNumber
          /\ now - channel[1].encryptedMessage.timestamp <= MessageMaxAge
          /\ channel[1].encryptedMessage.nonce \notin usedNonces
          /\ decryptReceivedMessage(channel[1].encryptedMessage, sessionKey,
                                    expectedSequenceNumber) )
        => ( received'.isValid /\ received'.message = <<sent[1].message>> ) ]_vars

\* ------------------------------------------------- failures and the lifecycle
\* message m names a challenge pending at u and its response differs from the
\* expected one
Mismatch(u, m) ==
  /\ validateKeyConfirmationMessage(m)
  /\ m.challengeId \in DOMAIN pendingChallenges[u]
  /\ ~verifyKeyConfirmationResponse(m.response,
                                    pendingChallenges[u][m.challengeId].expectedResponse)

\* C11: when processKeyConfirmationResponse receives a response that differs
\* from the expected response of the pending challenge it names, the session of
\* that challenge and its keys are deleted.
C11_MismatchAborts ==
  [][ \A u \in Users, m \in ResponseInputs :
        ( Mismatch(u, m) /\ processKeyConfirmationResponse(u, m) )
        => pendingChallenges[u][m.challengeId].sessionId \notin DOMAIN sessions'[u] ]_vars

\* the place of a status in the order initiated, ephemeral_created,
\* shared_secret_derived, keys_derived, confirmed
StatusRank(status) ==
  CASE status = "initiated" -> 1
    [] status = "ephemeral_created" -> 2
    [] status = "shared_secret_derived" -> 3
    [] status = "keys_derived" -> 4
    [] status = "confirmed" -> 5

\* C12: no operation moves the session held under a session id to an earlier
\* status.
C12_StatusMovesForward ==
  [][ \A u \in Users, s \in SessionIds :
        ( Holds(u, s) /\ Holds(u, s)' )
        => StatusRank(sessions'[u][s].status) >= StatusRank(sessions[u][s].status) ]_vars

\* C17: a handler call that throws leaves the peers, sessions and
\* pendingChallenges maps as they were.
C17_RejectionChangesNothing ==
  [][ ( last' # last /\ ~last'.ok )
      => UNCHANGED <<peers, sessions, pendingChallenges>> ]_vars


\* ------------------------------------------------- pending challenges
ChallengeIds == 1..MaxCid
Pending(u, i) == i \in DOMAIN pendingChallenges[u]
\* a response that equals the expected response of the pending challenge it names
Matching(u, m) ==
  /\ validateKeyConfirmationMessage(m)
  /\ Pending(u, m.challengeId)
  /\ verifyKeyConfirmationResponse(m.response,
        pendingChallenges[u][m.challengeId].expectedResponse)
Expired(u, i) == Pending(u, i) /\ now - pendingChallenges[u][i].timestamp > CleanupTimeout

\* C18: a pending challenge leaves the map in exactly two kinds of step, the
\* processing of a matching response to it and a cleanup() that runs more than
\* 5 minutes after its creation, and each of those steps does remove it; a
\* response is accepted only if the challenge it names is pending, so that a
\* response naming a removed challenge is rejected
C18_ChallengeConsumedOnce ==
  [][ \A u \in Users :
        /\ \A i \in ChallengeIds :
             ( Pending(u, i) /\ ~Pending(u, i)' )
             => \/ \E m \in ResponseInputs :
                     m.challengeId = i /\ Matching(u, m)
                        /\ processKeyConfirmationResponse(u, m)
                \/ Expired(u, i) /\ cleanup(u)
        /\ last' = Result("processKeyConfirmationResponse", TRUE, "")
             => \A m \in ResponseInputs :
                  processKeyConfirmationResponse(u, m)
                  => Matching(u, m) /\ ~Pending(u, m.challengeId)'
        /\ ( last'.op = "cleanup" /\ cleanup(u) )
             => \A i \in ChallengeIds : Expired(u, i) => ~Pending(u, i)' ]_vars
\* a response to a consumed challenge was just rejected, and a sweep has
\* removed a challenge as well
C18_Witness ==
  /\ last = Result("processKeyConfirmationResponse", FALSE, "Challenge not found or expired")
  /\ \E i \in 1..(nextCid - 1) : \A u \in Users : ~Pending(u, i)
  /\ \E u \in Users, s \in SessionIds : Confirmed(u, s)


\* ------------------------------------------------- the inactivity sweep
\* no call has created, replaced or advanced the session for more than 5 minutes:
\* every call that advances a session leaves a status beyond "ephemeral_created"
Idle(u, s) ==
  /\ Holds(u, s)
  /\ sessions[u][s].status \in {"initiated", "ephemeral_created"}
  /\ now - sessions[u][s].createdAt > CleanupTimeout

\* C19: cleanup() removes every session that is not confirmed and has been
\* inactive for more than 5 minutes, whether startKeyExchange or
\* processHelloMessage created it, and keeps every confirmed session.
C19_SweepRemovesIdleSessions ==
  [][ \A u \in Users, s \in SessionIds :
        ( last'.op = "cleanup" /\ cleanup(u) )
        => /\ Idle(u, s) => ~Holds(u, s)'
           /\ Confirmed(u, s) => Confirmed(u, s)' ]_vars


\* ------------------------------------------------- stale handshake messages
Stale(message) == now - message.timestamp > HandshakeMaxAge

\* C13: respondToKeyExchange and completeKeyExchange reject a message whose
\* timestamp is more than 300 seconds old, whatever its signature, and leave
\* the session keys as they were.
C13_StaleHandshakeRejected ==
  [][ \A u \in Users :
        /\ \A m \in KxInputs("key_exchange_initiate", u), nonce \in Nonces :
             ( Stale(m) /\ respondToKeyExchange(m, u, m.senderId, nonce) )
             => ( ~kxLast'.ok /\ UNCHANGED kxSessionKeys )
        /\ \A m \in KxInputs("key_exchange_response", u), e \in ephemeralPrivateKeys[u] :
             ( Stale(m) /\ completeKeyExchange(u, m, e, m.senderId) )
             => ( ~kxLast'.ok /\ UNCHANGED kxSessionKeys ) ]_vars


\* ------------------------------------------------- sequence numbers
\* the step is the acceptance of an inbound message
Accepts(i) ==
  /\ i \in DOMAIN decrypting
  /\ decryptAwaited(decrypting[i].payload, hookSessionKey).ok
  /\ handleIncomingMessage_then(i)

\* C14: the expected sequence number of the peer grows by exactly 1 in a step
\* that accepts an inbound message and stays as it is in every other step.
C14_ExpectedSequenceByOne ==
  [][ IF \E i \in 1..MaxDecrypting : Accepts(i)
      THEN sequenceNumbers' = sequenceNumbers + 1
      ELSE sequenceNumbers' = sequenceNumbers ]_vars

\* C15: every message sent to the peer carries the sequence number of the
\* message sent before it, plus one.
C15_SentSequenceByOne ==
  \A i \in 2..Len(sentSequence) : sentSequence[i] = sentSequence[i - 1] + 1

\* C16: a step in which an inbound message is rejected leaves the peer's used
\* nonces and expected sequence number as they were.
C16_RejectionKeepsReplayState ==
  [][ ( /\ hookLast'.op \in {"handleIncomingMessage", "handleIncomingMessage.then"}
        /\ ~hookLast'.ok
        /\ \/ \E payload \in Payloads : handleIncomingMessage(payload)
           \/ \E i \in 1..MaxDecrypting : handleIncomingMessage_then(i) )
      => UNCHANGED <<sequenceNumbers, peerNonces>> ]_vars


\* ------------------------------------------------- SessionManager expiry
Stored(userId) == userId \in DOMAIN smSessions
Age(userId) == now - smSessions[userId].createdAt

\* C20: storeSession leaves exactly the new session for the peer, whatever was
\* stored before; no stored session is older than 24 hours; a timeout that
\* fires removes the session of its peer, and removes no session that was
\* stored less than 24 hours ago.
C20_SessionExpiry ==
  [][ /\ \A userId \in Users, sessionKey \in Keys :
           storeSession(userId, sessionKey)
           => ( Stored(userId)' /\ smSessions'[userId] = storedSession(sessionKey) )
      /\ \A userId \in Users : Stored(userId)' => Age(userId)' <= SessionLifetime
      /\ \A timeoutId \in DOMAIN timers :
           timeoutFires(timeoutId)
           => /\ timers[timeoutId].userId \notin DOMAIN smSessions'
              /\ \A userId \in Users :
                   ( Stored(userId) /\ ~Stored(userId)' ) => Age(userId) >= SessionLifetime ]_vars
\* a session was replaced after the clock had moved, and lives on past the
\* time at which the timeout of the replaced session would have run
C20_Witness ==
  \E userId \in Users :
     /\ Stored(userId)
     /\ smSessions[userId].createdAt > StartTime
     /\ now >= StartTime + SessionLifetime
     /\ sessionTimeouts[userId] = 2
     /\ nextTimeoutId = 3
     /\ managerLast = Result("storeSession", TRUE, "replaced")


\* ------------------------------------------------- SessionManager timers
\* the peers for whom a timeout is armed
TimerPeers == { timers[id].userId : id \in DOMAIN timers }

\* C21: clearAllSessions leaves no session and no armed timeout, so that no
\* timeout callback can run afterwards; and after every step the peers with an
\* armed timeout are the peers with a stored session, one timeout each.
C21_NoDanglingTimers ==
  [][ /\ ( managerLast'.op = "clearAllSessions" /\ clearAllSessions )
           => ( smSessions' = Empty /\ sessionTimeouts' = Empty /\ timers' = Empty
                /\ \A timeoutId \in 1..MaxTimers : ~(ENABLED timeoutFires(timeoutId))' )
      /\ TimerPeers' = DOMAIN smSessions'
      /\ Cardinality(DOMAIN timers') = Cardinality(DOMAIN smSessions') ]_vars
\* clearAllSessions has just run on a manager that held sessions with armed
\* timeouts, and none is left
C21_Witness ==
  /\ managerLast = Result("clearAllSessions", TRUE, "timeouts cleared")
  /\ timers = Empty


\* ------------------------------------------------- secrets of a session
NoSecret == {}

\* C22: a session that holds derived session keys no longer holds the shared
\* secret they were derived from.
C22_SharedSecretDiscarded ==
  \A u \in Users, s \in SessionIds :
     ( Holds(u, s) /\ HasKeys(sessions[u][s]) ) => sessions[u][s].sharedSecret = NoSecret


\* C23: an ephemeral private key derives a shared secret with one peer
\* ephemeral key only: once a session's ephemeral key has derived a shared
\* secret, no later step derives a different one with the same key.
C23_EphemeralKeyUsedOnce ==
  [][ \A u \in Users, s \in SessionIds :
        ( /\ Holds(u, s) /\ Holds(u, s)'
          /\ sessions[u][s].sharedSecret # NoSecret
          /\ sessions'[u][s].localEphemeral = sessions[u][s].localEphemeral )
        => sessions'[u][s].sharedSecret = sessions[u][s].sharedSecret ]_vars

\* C24: once a peer record exists, no later hello message changes its public
\* keys or its verified flag.
C24_PeerKeysPinned ==
  [][ \A u \in Users : \A p \in DOMAIN peers[u] :
        p \in DOMAIN peers'[u] /\ peers'[u][p] = peers[u][p] ]_vars


\* ------------------------------------------------- the response comparison
\* C25: verifyKeyConfirmationResponse returns true exactly when the response
\* and the expected response have the same length and the same value at every
\* position.
C25_TrueIffEqual ==
  \A i \in DOMAIN verifications :
     verifications[i].result <=> ( verifications[i].response = verifications[i].expectedResponse )

\* C26: for a response of the expected length, the number of byte comparisons
\* does not depend on where the first difference is: it is the number the
\* matching response needs, one per byte.
C26_ConstantTime ==
  \A i \in DOMAIN verifications :
     Len(verifications[i].response) = Len(verifications[i].expectedResponse)
     => verifications[i].comparisons = Len(verifications[i].expectedResponse)


\* ------------------------------------------------- IV inputs
Below2to32(counter) == counter[1] < Limb
SameModulo2to32(n, m) == n[1] % Limb = m[1] % Limb /\ n[2] = m[2]

C28_KeysRetiredInTime ==
  [][ getNextIVDerived
        => /\ derivedKeys'[1].messageCount <= maxMessagesPerKey
           /\ wallClock - derivedKeys[1].derivedAt <= rekeyInterval ]_vars

\* the stored messages i and j belong to one (senderId, receiverId) pair
SamePair(i, j) ==
  /\ messageDocs[i].senderId = messageDocs[j].senderId
  /\ messageDocs[i].receiverId = messageDocs[j].receiverId

\* the request repeats a sequence number stored for its pair, or a stored nonce
Duplicates(user, body) ==
  \E i \in DOMAIN messageDocs :
     \/ /\ "sequenceNumber" \in DOMAIN body
        /\ messageDocs[i].senderId = user
        /\ messageDocs[i].receiverId = body.receiverId
        /\ messageDocs[i].sequenceNumber = body.sequenceNumber
     \/ messageDocs[i].nonce = body.nonce

\* C29: a send-message request that repeats a stored sequence number of its
\* (senderId, receiverId) pair, or a nonce already used, is rejected and stores
\* nothing, so no two stored messages of one pair share a sequence number.
C29_DuplicatesRejected ==
  [][ /\ \A user \in Users, body \in Bodies :
           ( Duplicates(user, body) /\ sendMessage(user, body) )
              => ( storeLast'.status # 201 /\ messageDocs' = messageDocs )
      /\ \A i, j \in DOMAIN messageDocs' :
           ( i # j /\ SamePair(i, j)' )
              => messageDocs'[i].sequenceNumber # messageDocs'[j].sequenceNumber ]_vars

\* C30: a login code verifies at most once and only while it is the stored one:
\* a verify-otp request is answered with a token only when its code is the
\* user's stored code, the stored code and expiry are cleared by it, and no user
\* has been given more tokens than codes.
C30_OtpVerifiesOnce ==
  [][ /\ \A i \in DOMAIN verifying :
           verifyOtp_save(i)
             => /\ userDocs[verifying[i].user].otp = verifying[i].otp
                /\ userDocs'[verifying[i].user].otp = NoOtp
                /\ userDocs'[verifying[i].user].otpExpires = NoTime
      /\ \A u \in Users : tokens'[u] <= sentOtps'[u] ]_vars

\* ------------------------------------------- the sweep and the live handshake
\* session s of u holds keys and a pending challenge that cleanup() would keep
AwaitsAnswer(u, s) ==
  /\ Holds(u, s) /\ HasKeys(sessions[u][s])
  /\ \E i \in ChallengeIds :
        Pending(u, i) /\ ~Expired(u, i) /\ pendingChallenges[u][i].sessionId = s

\* C31: cleanup() never removes a session that holds derived keys and has a live
\* pending challenge, and processKeyConfirmationResponse reports success only for
\* a challenge whose session is still in the session map.
C31_SweepSparesLiveHandshake ==
  [][ /\ \A u \in Users, s \in SessionIds :
           ( last'.op = "cleanup" /\ cleanup(u) /\ AwaitsAnswer(u, s) ) => Holds(u, s)'
      /\ \A u \in Users, i \in ChallengeIds :
           ( /\ last' = Result("processKeyConfirmationResponse", TRUE, "")
             /\ Pending(u, i) /\ ~Pending(u, i)' )
              => pendingChallenges[u][i].sessionId \in DOMAIN sessions'[u] ]_vars

\* cleanup() has run while a session older than the sweep's timeout held keys
\* and a live pending challenge, and the session is still there
C31_Witness ==
  \E u \in Users, s \in SessionIds :
     /\ last.op = "cleanup"
     /\ AwaitsAnswer(u, s)
     /\ now - sessions[u][s].createdAt > CleanupTimeout

\* ------------------------------------------------- crossed key exchanges
\* both users started a key exchange with each other, and every initiate and
\* response message has been handled without an error
CrossedAndHandled ==
  /\ \A u \in Users : \E x \in DOMAIN exchanges : exchanges[x].initiate.senderId = u
  /\ \A x \in DOMAIN exchanges :
        exchanges[x].initiateHandled = "yes" /\ exchanges[x].responseHandled = "yes"
  /\ flushing = <<>>

\* C32: when two users initiate a key exchange with each other at the same time,
\* then once all initiate and response messages have been handled both hold
\* the same session key for each other.
C32_CrossedInitiatesAgree ==
  CrossedAndHandled
    => \A u \in Users : \A p \in Users \ {u} :
          /\ p \in DOMAIN peerSessions[u] /\ u \in DOMAIN peerSessions[p]
          /\ peerSessions[u][p] = peerSessions[p][u]

\* ------------------------------------------------------ replayed ciphertexts
\* C33: a ciphertext that the receiver has accepted once is never accepted a
\* second time, whatever nonce, sequenceNumber and timestamp the replayed message
\* carries.
C33_CiphertextAcceptedOnce ==
  [][ \A nonce \in Nonces, sequenceNumber \in SequenceNumbers, timestamp \in Timestamps,
         sessionKey \in Keys, expectedSequenceNumber \in SequenceNumbers :
        ( /\ channel # <<>> /\ channel[1].delivered
          /\ decryptRewritten(nonce, sequenceNumber, timestamp, sessionKey,
                              expectedSequenceNumber) )
        => ~received'.isValid ]_vars

\* ------------------------------------- a transport that delays the responses
\* processKeyConfirmationChallenge with the response message it returns handed
\* to the transport
returnKeyConfirmationResponse(u, message, sessionId) ==
  /\ processKeyConfirmationChallenge(u, message, sessionId)
  /\ heldResponses' =
       IF last'.ok
       THEN heldResponses \cup
              { createKeyConfirmationResponse(
                  respondToKeyConfirmation(message.challenge, sessions[u][sessionId].keys[1]),
                  message.challengeId) }
       ELSE heldResponses

NextConfirm ==
  \/ \E u \in Users : initialize(u) /\ UNCHANGED <<ivVars, codecVars, appVars>>
  \/ \E u \in Users : \E m \in HelloInputs(u) \cup ForgedHelloInputs(u) :
       processHelloMessage(u, m) /\ UNCHANGED <<ivVars, codecVars, appVars>>
  \/ \E u \in Users, m \in EphemeralInputs, s \in SessionIds :
       processEphemeralMessage(u, m, s) /\ UNCHANGED <<ivVars, codecVars, appVars>>
  \/ \E u \in Users, m \in ChallengeInputs, s \in SessionIds :
       /\ returnKeyConfirmationResponse(u, m, s)
       /\ UNCHANGED <<ivVars, codecVars, kxVars, hookVars, managerVars, verifications, hashed,
                      rekeyVars, storeVars, authVars, duoVars, numericCode>>
  \/ \E u \in Users, m \in heldResponses :
       processKeyConfirmationResponse(u, m) /\ UNCHANGED <<ivVars, codecVars, appVars>>

SpecConfirm == Init /\ [][NextConfirm]_vars

\* ------------------------------------------------ what a confirmed session holds
\* C34: a session with status confirmed holds session keys, and when a response
\* confirms a session, the expected response it matched was produced by the
\* confirmation HMAC key of the keys the session holds.
C34_ConfirmedHoldsConfirmedKeys ==
  [][ /\ \A u \in Users, s \in SessionIds :
           Confirmed(u, s)' => HasKeys(sessions'[u][s])
      /\ \A u \in Users, i \in ChallengeIds :
           ( /\ last' = Result("processKeyConfirmationResponse", TRUE, "")
             /\ Pending(u, i) /\ ~Pending(u, i)'
             /\ pendingChallenges[u][i].sessionId \in DOMAIN sessions'[u]
             /\ HasKeys(sessions'[u][pendingChallenges[u][i].sessionId]) )
           => \E c \in Challenges :
                 pendingChallenges[u][i].expectedResponse =
                   HmacSign(sessions'[u][pendingChallenges[u][i].sessionId].keys[1].hmacKey, c) ]_vars


\* ------------------------------------------- key-exchange message before data
\* C35: every encrypted message a user has sent to a peer is preceded, in the
\* order the requests reached the server, by the key-exchange message of that
\* user to that peer that carries the public key the message's session key was
\* derived from (on the responder side: the key-exchange response).
C35_KeyExchangeSentFirst ==
  \A j \in DOMAIN outbox :
     outbox[j].kind = "message" =>
        \E i \in 1..(j - 1) :
           /\ outbox[i].kind # "message"
           /\ outbox[i].from = outbox[j].from
           /\ outbox[i].to = outbox[j].to
           /\ outbox[i].eph \in outbox[j].key.secret


\* ------------------------------------------- the per-peer sequence counter
\* C36: while the session with the peer stays the same, no step of the hook,
\* whatever the order in which overlapping sends and inbound decryptions
\* complete, lowers the peer's sequence counter.
C36_CounterNeverDecreases ==
  [][ ( hookSessionKey # NoKey /\ hookSessionKey' = hookSessionKey )
        => sequenceNumbers' >= sequenceNumbers ]_vars


\* ------------------------------------------- hello for an existing session
\* C37: processHelloMessage on a hello message whose sessionId names a session
\* the receiver already holds leaves that session in the map with the keys and
\* the status it had.
C37_HelloKeepsSession ==
  [][ \A u \in Users : \A m \in HelloInputs(u) \cup ForgedHelloInputs(u) :
        ( m.sessionId \in DOMAIN sessions[u] /\ processHelloMessage(u, m) )
          => /\ m.sessionId \in DOMAIN sessions'[u]
             /\ sessions'[u][m.sessionId].keys = sessions[u][m.sessionId].keys
             /\ sessions'[u][m.sessionId].status = sessions[u][m.sessionId].status ]_vars


\* ------------------------------------------------ the queue of unsent messages
\* the places in the outbox of the message with this content from u to p
SentAt(box, u, p, content) ==
  { j \in DOMAIN box : /\ box[j].kind = "message" /\ box[j].from = u
                       /\ box[j].to = p /\ box[j].content = content }

\* C38: when the queue a user holds for a peer is removed, every message in it
\* has reached the server exactly once, and in the order queued.
C38_QueuedSentOnceInOrder ==
  [][ \A u \in Users : \A p \in Users \ {u} :
        ( p \in DOMAIN pendingMessages[u] /\ p \notin DOMAIN pendingMessages'[u] )
          => LET queue == queues[pendingMessages[u][p]]
             IN  /\ \A k \in DOMAIN queue :
                       Cardinality(SentAt(outbox', u, p, queue[k])) = 1
                 /\ \A k \in DOMAIN queue : \A l \in DOMAIN queue :
                       k < l => \A i \in SentAt(outbox', u, p, queue[k]) :
                                   \A j \in SentAt(outbox', u, p, queue[l]) : i < j ]_vars


\* ------------------------------------ protocolInitialization.js: numeric code
\* strings are sequences of character codes
Zero == 48
Dash == 45
HashLen == 32
HashBytes == {0, 3, 250, 255}

\* String.prototype.padStart with a one-character filler
padStart(string, targetLength, padString) ==
  IF Len(string) >= targetLength THEN string
  ELSE [ i \in 1..(targetLength - Len(string)) |-> padString ] \o string

\* Number.prototype.toString(radix) of a natural number
RECURSIVE toString(_, _)
toString(num, radix) ==
  IF num < radix THEN << Zero + num >>
  ELSE toString(num \div radix, radix) \o << Zero + (num % radix) >>

\* parseInt(bits, 2) of a string of binary digits
RECURSIVE parseInt(_)
parseInt(bits) ==
  IF bits = <<>> THEN 0
  ELSE 2 * parseInt(SubSeq(bits, 1, Len(bits) - 1)) + (bits[Len(bits)] - Zero)

\* Array.prototype.join
RECURSIVE join(_, _)
join(groups, separator) ==
  IF Len(groups) = 0 THEN <<>>
  ELSE IF Len(groups) = 1 THEN groups[1]
  ELSE groups[1] \o << separator >> \o join(Tail(groups), separator)

\* the loop over first15Bytes
RECURSIVE binaryOf(_)
binaryOf(bytes) ==
  IF bytes = <<>> THEN <<>>
  ELSE padStart(toString(bytes[1], 2), 8, Zero) \o binaryOf(Tail(bytes))

formatNumericCode(hashArray) ==
  LET first15Bytes == SubSeq(hashArray, 1, 15)
      binary == binaryOf(first15Bytes)
      groups == [ i \in 1..6 |->
                    LET start == (i - 1) * 10
                        end == start + 10
                        bits == SubSeq(binary, start + 1, end)
                        num == parseInt(bits)
                    IN  padStart(toString(num, 10), 3, Zero) ]
  IN  join(groups, Dash)

\* SHA-256 outputs: every choice of the leading bytes, the rest fixed
Hashes ==
  { [ i \in 1..HashLen |-> IF i <= HashVaried THEN h[i] ELSE (i * 37) % 256 ] :
      h \in [ 1..HashVaried -> HashBytes ] }

formatNumericCodeCall(hashArray) ==
  numericCode' = << [ hashArray |-> hashArray, code |-> formatNumericCode(hashArray) ] >>

NextCode ==
  \E hashArray \in Hashes :
     formatNumericCodeCall(hashArray) /\ UNCHANGED <<earlyVars, rekeyVars, storeVars, authVars, duoVars, heldResponses>>

SpecCode == Init /\ [][NextCode]_vars

\* the value of the 10-bit slice number g (from 0) of the hash, most
\* significant bit first
BitAt(hashArray, j) == (hashArray[(j \div 8) + 1] \div (2 ^ (7 - (j % 8)))) % 2
SliceValue(hashArray, g) ==
  LET Weigh[k \in 0..10] ==
        IF k = 0 THEN 0 ELSE 2 * Weigh[k - 1] + BitAt(hashArray, 10 * g + k - 1)
  IN  Weigh[10]

\* the number three digit characters stand for
ThreeDigits(code, at) ==
  100 * (code[at] - Zero) + 10 * (code[at + 1] - Zero) + (code[at + 2] - Zero)

\* C39: the code formatNumericCode returns for a 32-byte hash is six groups of
\* exactly three decimal digits separated by '-', and each group is the value
\* of one consecutive 10-bit slice of the first 60 bits of the hash.
C39_SixGroupsOfThreeDigits ==
  \A n \in DOMAIN numericCode :
     LET code == numericCode[n].code
         hashArray == numericCode[n].hashArray
     IN  /\ Len(code) = 23
         /\ \A g \in 0..5 :
              /\ g > 0 => code[4 * g] = Dash
              /\ \A d \in 1..3 : code[4 * g + d] \in Zero..(Zero + 9)
              /\ ThreeDigits(code, 4 * g + 1) = SliceValue(hashArray, g)

====
